---------------------------- MODULE Spec2Model ----------------------------
(***************************************************************************)
(* A model of the volcano-llm repository.                                  *)
(*                                                                         *)
(* The programs and components, and the specifications that run them:      *)
(*   SpecDemo      the git-native hot-reload demonstration (one goroutine  *)
(*                 rewrites a workflow file while main re-reads it);       *)
(*   SpecTemporal  the Temporal integration program: its workflows, its    *)
(*                 activity and the driver that starts and signals them;   *)
(*   SpecServe     the request path: classifier, extractor, decomposer,    *)
(*                 router, fast-path executor, session store and the       *)
(*                 durable-path start;                                     *)
(*   SpecRuns      the request path serving the calculator example while   *)
(*                 the base branch is reloaded, with an observer that      *)
(*                 keeps one response to compare later ones with;          *)
(*   SpecReload    the hot-reload coordinator applying batches of changes; *)
(*   SpecExec      the fast-path executor under every outcome of a step;   *)
(*   SpecSession   concurrent requests updating one session;               *)
(*   SpecStart     start requests posted directly to the durable path;     *)
(*   SpecPlans     the executor and DataPipelineWorkflow on their plans;   *)
(*   SpecTemporalFair  SpecTemporal, its workflow scheduled fairly;        *)
(*   SpecLong      LongRunningWorkflow started with any number of days;    *)
(*   SpecCancel    the Temporal program beside a client that cancels;      *)
(*   SpecTenant    the branch manager resolving tenant ids to branches;    *)
(*   SpecSuite     the integration test suite and the server it calls.     *)
(***************************************************************************)
EXTENDS Integers, Sequences, FiniteSets, TLC

VARIABLES
    \* ---- hot-reload demonstration ----
    now,        \* wall clock, in seconds since main started
    file,       \* content of temp-workflows/data-pipeline.json, a sequence of lines
    mainPc,     \* main's position in the monitoring loop
    mainI,      \* the loop counter i of the monitoring loop
    mainWake,   \* the time main's current Sleep ends
    rdBuf,      \* what the ReadFile in progress has read so far
    rdFrom,     \* history: the content of the file when the latest ReadFile opened it
    reads,      \* the definitions readWorkflow has returned, in order
    wrPc,       \* the reload goroutine's position
    wrWake,     \* the time the goroutine's Sleep ends
    wrRest,     \* the lines WriteFile has still to write
    updated,    \* the definition the goroutine writes
    \* ---- Temporal integration program ----
    drvPc,          \* main's position
    tenantQueues,   \* TEST 3: the task queue computed for each customer so far
    dpPc,           \* DataPipelineWorkflow's position
    dpResults,      \* DataPipelineWorkflow's results slice (the stages executed)
    lrPc,           \* LongRunningWorkflow's position
    lrDays,         \* its argument days
    lrDay,          \* its loop variable day
    isPaused,       \* its local isPaused
    processedDays,  \* its local processedDays
    pauseChan,      \* payloads buffered in the "pause" signal channel
    resumeChan,     \* payloads buffered in the "resume" signal channel
    pausePending,   \* history: a pause was delivered and no resume since
    clientSignals,  \* signals other clients of the server have sent
    ehPc,           \* ErrorHandlingWorkflow's position
    ehAttempt,      \* the attempt of RetryableActivity the server is at
    ehCalls,        \* the attemptNumber argument of every execution so far
    ehResult,       \* the workflow's returned string
    ehErr,          \* whether the workflow returned an error
    \* ---- request path ----
    threshold,      \* the router's step-count threshold N
    current,        \* per branch, the current snapshot
    reloads,        \* reloads performed so far
    lastReload,     \* history: the last reload's branch, batch, previous snapshot, result
    sessions,       \* the session store: per session id, last_result
    worker,         \* per worker, the request it is serving
    requests,       \* requests received so far
    started,        \* durable executions started so far (the last workflow_id)
    storedBy,       \* history: per session id, the request whose result it holds
    last,           \* history: the latest response
    pinned,         \* history: an earlier response, kept for comparison
    \* ---- branch manager ----
    tenantBranches, \* the tenants that have been set up, each with its branch
    resolutions,    \* history: the tenant ids resolved so far, with the branch returned
    \* ---- other clients of the Temporal server ----
    cancelRequested, \* the workflows whose cancellation a client has requested
    \* ---- integration test suite ----
    server,         \* the API server the suite talks to: starting, up or down
    tsPc,           \* the suite's position in main
    probes,         \* waitForServices' loop variable i: its probes not answered 200
    tsReady,        \* history: a health probe has answered 200
    tsSent,         \* history: a scenario has sent a request
    tsResults,      \* ts.Results
    tsStart,        \* testWorkflowSignaling: what the start request came to
    tsCalls         \* history: the control calls sent to the started workflow

demoVars == <<now, file, mainPc, mainI, mainWake, rdBuf, rdFrom, reads, wrPc, wrWake, wrRest, updated>>

temporalVars == <<drvPc, tenantQueues, dpPc, dpResults, lrPc, lrDays, lrDay, isPaused,
                  processedDays, pauseChan, resumeChan, pausePending, clientSignals,
                  ehPc, ehAttempt, ehCalls, ehResult, ehErr>>

serveVars == <<threshold, current, reloads, lastReload, sessions, storedBy, worker,
               requests, started, last, pinned>>

tenantVars == <<tenantBranches, resolutions>>

clientVars == <<cancelRequested>>

suiteVars == <<server, tsPc, probes, tsReady, tsSent, tsResults, tsStart, tsCalls>>

vars == <<demoVars, temporalVars, serveVars, tenantVars, clientVars, suiteVars>>

\* What each subsystem leaves alone. The Temporal program itself never
\* requests a cancellation.
notDemo == <<temporalVars, serveVars, tenantVars, clientVars, suiteVars>>
notTemporal == <<demoVars, serveVars, tenantVars, clientVars, suiteVars>>
notServe == <<demoVars, temporalVars, tenantVars, clientVars, suiteVars>>
notTenant == <<demoVars, temporalVars, serveVars, clientVars, suiteVars>>
notClient == <<demoVars, serveVars, tenantVars, suiteVars>>
notSuite == <<demoVars, temporalVars, serveVars, tenantVars, clientVars>>

-----------------------------------------------------------------------------
(* Bounds *)

\* The clock stops advancing here.
MaxTime == 4

\* Signals sent to the long-running workflow by clients other than main.
MaxClientSignals == 2

\* The router's threshold N is one of 1..MaxThreshold.
MaxThreshold == 1

\* Requests received in one run.
MaxRequests == 3

\* Tenant ids resolved in one run.
MaxResolutions == 3

\* A client starts LongRunningWorkflow with days in -1..MaxDays.
MaxDays == 3

\* Reloads performed in one run, and the longest batch of changes.
MaxReloads == 1
MaxBatch == 3

-----------------------------------------------------------------------------
(* The hot-reload demonstration                                            *)

\* The zero time.Time, which is no instant of the run.
ZeroTime == -1

MonitorRounds == 3
MonitorSleep == 1
ReloadSleep == 2

\* type WorkflowDefinition struct
WorkflowDefinition(name, version, queue, modified, maxDuration, maxAttempts) ==
    [Name |-> name, Version |-> version, TaskQueue |-> queue,
     LastModified |-> modified, MaxDuration |-> maxDuration,
     MaxAttempts |-> maxAttempts]

\* var workflow WorkflowDefinition: every field at its zero value.
ZeroDefinition == WorkflowDefinition("", "", "", ZeroTime, "", 0)

initialWorkflow == WorkflowDefinition("DataPipelineWorkflow", "1.0.0", "volcano-workflows", 0, "1h", 3)

updatedWorkflow(t) == WorkflowDefinition("DataPipelineWorkflow", "1.1.0", "volcano-workflows", t, "2h", 5)

\* One line of the indented JSON document.
Line(key, str, num) == [key |-> key, str |-> str, num |-> num]

\* json.MarshalIndent(workflow, "", "  "): the document, line by line.
MarshalIndent(w) ==
    << Line("{", "", 0),
       Line("name", w.Name, 0),
       Line("version", w.Version, 0),
       Line("task_queue", w.TaskQueue, 0),
       Line("last_modified", "", w.LastModified),
       Line("max_duration", w.MaxDuration, 0),
       Line("maximum_attempts", "", w.MaxAttempts),
       Line("}", "", 0) >>

\* The syntax check json.Unmarshal runs before it decodes anything: one
\* object, opened by the first line and closed by the last.
ValidJSON(data) ==
    /\ Len(data) >= 2
    /\ data[1].key = "{"
    /\ data[Len(data)].key = "}"
    /\ \A k \in 2..(Len(data) - 1) : data[k].key \notin {"{", "}"}

\* The value the last line with this key gives, or the field's zero value.
RECURSIVE FieldStr(_, _, _)
FieldStr(data, key, zero) ==
    IF data = <<>> THEN zero
    ELSE IF data[Len(data)].key = key THEN data[Len(data)].str
    ELSE FieldStr(SubSeq(data, 1, Len(data) - 1), key, zero)

RECURSIVE FieldNum(_, _, _)
FieldNum(data, key, zero) ==
    IF data = <<>> THEN zero
    ELSE IF data[Len(data)].key = key THEN data[Len(data)].num
    ELSE FieldNum(SubSeq(data, 1, Len(data) - 1), key, zero)

\* json.Unmarshal(data, &workflow) on a zero struct, its error dropped:
\* an invalid document leaves the struct untouched.
Unmarshal(data) ==
    IF ~ValidJSON(data) THEN ZeroDefinition
    ELSE WorkflowDefinition(FieldStr(data, "name", ""),
                            FieldStr(data, "version", ""),
                            FieldStr(data, "task_queue", ""),
                            FieldNum(data, "last_modified", ZeroTime),
                            FieldStr(data, "max_duration", ""),
                            FieldNum(data, "maximum_attempts", 0))

\* What one read(2) at the reader's offset returns: the rest of the file.
ReadAt(f, offset) == SubSeq(f, offset + 1, Len(f))

InitDemo ==
    /\ now = 0
    /\ file = MarshalIndent(initialWorkflow)
    /\ mainPc = "loop"
    /\ mainI = 0
    /\ mainWake = 0
    /\ rdBuf = <<>>
    /\ rdFrom = <<>>
    /\ reads = <<>>
    /\ wrPc = "start"
    /\ wrWake = 0
    /\ wrRest = <<>>
    /\ updated = ZeroDefinition

\* Time passes; a Sleep only bounds the wake-up from below.
Tick ==
    /\ now < MaxTime
    /\ mainPc # "exit"
    /\ now' = now + 1
    /\ UNCHANGED <<file, mainPc, mainI, mainWake, rdBuf, rdFrom, reads, wrPc, wrWake, wrRest, updated>>
    /\ UNCHANGED notDemo

\* for i := 0; i < 3; i++ { time.Sleep(1 * time.Second)
MainLoop ==
    /\ mainPc = "loop"
    /\ IF mainI < MonitorRounds
       THEN /\ mainPc' = "sleep"
            /\ mainWake' = now + MonitorSleep
       ELSE \* main returns: the deferred RemoveAll runs and the process ends
            /\ mainPc' = "exit"
            /\ mainWake' = mainWake
    /\ UNCHANGED <<now, file, mainI, rdBuf, rdFrom, reads, wrPc, wrWake, wrRest, updated>>
    /\ UNCHANGED notDemo

\* readWorkflow: ioutil.ReadFile opens the file
MainOpen ==
    /\ mainPc = "sleep"
    /\ now >= mainWake
    /\ mainPc' = "read"
    /\ rdBuf' = <<>>
    /\ rdFrom' = file
    /\ UNCHANGED <<now, file, mainI, mainWake, reads, wrPc, wrWake, wrRest, updated>>
    /\ UNCHANGED notDemo

\* ReadFile's loop: read until a read returns nothing (io.EOF), then
\* readWorkflow unmarshals what was read and returns it.
MainRead ==
    /\ mainPc = "read"
    /\ LET got == ReadAt(file, Len(rdBuf))
       IN IF got # <<>>
          THEN /\ rdBuf' = rdBuf \o got
               /\ UNCHANGED <<mainPc, mainI, reads>>
          ELSE /\ reads' = Append(reads, Unmarshal(rdBuf))
               /\ mainI' = mainI + 1
               /\ mainPc' = "loop"
               /\ rdBuf' = <<>>
    /\ UNCHANGED <<now, file, mainWake, rdFrom, wrPc, wrWake, wrRest, updated>>
    /\ UNCHANGED notDemo

\* go func() { time.Sleep(2 * time.Second)
ReloadStart ==
    /\ wrPc = "start"
    /\ mainPc # "exit"
    /\ wrPc' = "sleep"
    /\ wrWake' = now + ReloadSleep
    /\ UNCHANGED <<now, file, mainPc, mainI, mainWake, rdBuf, rdFrom, reads, wrRest, updated>>
    /\ UNCHANGED notDemo

\* writeWorkflow: MarshalIndent, then WriteFile opens the file with O_TRUNC
ReloadOpen ==
    /\ wrPc = "sleep"
    /\ mainPc # "exit"
    /\ now >= wrWake
    /\ updated' = updatedWorkflow(now)
    /\ wrRest' = MarshalIndent(updatedWorkflow(now))
    /\ file' = <<>>
    /\ wrPc' = "write"
    /\ UNCHANGED <<now, mainPc, mainI, mainWake, rdBuf, rdFrom, reads, wrWake>>
    /\ UNCHANGED notDemo

\* WriteFile's f.Write: the data reaches the file in one or more pieces
ReloadWrite ==
    /\ wrPc = "write"
    /\ mainPc # "exit"
    /\ \E k \in 1..Len(wrRest) :
          /\ file' = file \o SubSeq(wrRest, 1, k)
          /\ wrRest' = SubSeq(wrRest, k + 1, Len(wrRest))
          /\ wrPc' = IF k = Len(wrRest) THEN "done" ELSE "write"
    /\ UNCHANGED <<now, mainPc, mainI, mainWake, rdBuf, rdFrom, reads, wrWake, updated>>
    /\ UNCHANGED notDemo

NextDemo ==
    \/ Tick
    \/ MainLoop
    \/ MainOpen
    \/ MainRead
    \/ ReloadStart
    \/ ReloadOpen
    \/ ReloadWrite

InitDemoIdle ==
    /\ now = 0
    /\ file = <<>>
    /\ mainPc = "exit"
    /\ mainI = 0
    /\ mainWake = 0
    /\ rdBuf = <<>>
    /\ rdFrom = <<>>
    /\ reads = <<>>
    /\ wrPc = "start"
    /\ wrWake = 0
    /\ wrRest = <<>>
    /\ updated = ZeroDefinition

-----------------------------------------------------------------------------
(* The Temporal integration program                                        *)

\* The payload SignalWorkflow(..., nil) carries, and the one a client that
\* sends data with its signal carries.
NilPayload == "nil"
Payloads == {NilPayload, "true"}

\* LongRunningWorkflow is started with 5 days.
LongDays == 5

\* RetryPolicy.MaximumAttempts of ErrorHandlingWorkflow's activity options.
MaximumAttempts == 5

\* RetryableActivity fails while attemptNumber is below this.
FirstSuccessfulAttempt == 3

\* stages := []string{...} of DataPipelineWorkflow
stages == <<"Extract", "Validate", "Transform", "Load", "Report">>

\* customers := []string{...} of TEST 3
customers == <<"enterprise-corp", "startup-inc", "mid-market">>

\* fmt.Sprintf("volcano-llm-tests-%s", customer), kept as the pair it is built from
TenantTaskQueue(customer) == <<"volcano-llm-tests", customer>>

\* worker.New(c, "volcano-llm-tests", ...) and the TaskQueue of every start
\* the program makes, as the same kind of pair (no customer part).
WorkerTaskQueue == <<"volcano-llm-tests", "">>

\* func RetryableActivity(ctx, attemptNumber int) (string, error)
RetryableActivity(attemptNumber) ==
    IF attemptNumber < FirstSuccessfulAttempt
    THEN [result |-> "", err |-> TRUE]
    ELSE [result |-> "Success on attempt", err |-> FALSE]

\* attemptNumber := 1 in ErrorHandlingWorkflow: the argument ExecuteActivity
\* schedules the activity with, the same for every attempt of it.
ActivityArgument == 1

\* pauseChan.ReceiveAsync(&pauseSignal) into a nil interface value: the payload
\* at the head of the channel, or nil when the channel is empty.
ReceiveAsync(chan) == IF chan = <<>> THEN NilPayload ELSE Head(chan)

\* if pauseSignal != nil { isPaused = true }
PausedAfter(paused, pauseSignal) == paused \/ pauseSignal # NilPayload

\* The worker of this process is running: workflows make progress.
WorkerRunning == drvPc \notin {"dial", "fatal", "exit"}

\* The long-running workflow accepts signals.
LongOpen == lrPc \in {"loop", "wait", "sleep"}

InitTemporal ==
    /\ cancelRequested = {}
    /\ drvPc = "dial"
    /\ tenantQueues = <<>>
    /\ dpPc = "idle"
    /\ dpResults = <<>>
    /\ lrPc = "idle"
    /\ lrDays = 0
    /\ lrDay = 0
    /\ isPaused = FALSE
    /\ processedDays = 0
    /\ pauseChan = <<>>
    /\ resumeChan = <<>>
    /\ pausePending = FALSE
    /\ clientSignals = 0
    /\ ehPc = "idle"
    /\ ehAttempt = 0
    /\ ehCalls = <<>>
    /\ ehResult = ""
    /\ ehErr = FALSE

\* One variable list per process of the program.
drvVars == <<drvPc, tenantQueues>>
dpVars == <<dpPc, dpResults>>
lrVars == <<lrPc, lrDays, lrDay, isPaused, processedDays>>
sigVars == <<pauseChan, resumeChan, pausePending, clientSignals>>
ehVars == <<ehPc, ehAttempt, ehCalls, ehResult, ehErr>>

\* c, err := client.Dial(...); if err != nil { log.Fatalf }
DrvDial ==
    /\ drvPc = "dial"
    /\ drvPc' \in {"test2", "fatal"}
    /\ UNCHANGED <<tenantQueues, dpVars, lrVars, sigVars, ehVars>>
    /\ UNCHANGED notTemporal

\* go func() { if err := w.Run(...); err != nil { log.Fatalf } }()
WorkerFailed ==
    /\ WorkerRunning
    /\ drvPc' = "fatal"
    /\ UNCHANGED <<tenantQueues, dpVars, lrVars, sigVars, ehVars>>
    /\ UNCHANGED notTemporal

\* TEST 2: c.ExecuteWorkflow(..., DataPipelineWorkflow, "enterprise-corp")
DrvStartPipeline ==
    /\ drvPc = "test2"
    /\ \/ /\ drvPc' = "await2"
          /\ dpPc' = "run"
       \/ /\ drvPc' = "test3"
          /\ dpPc' = dpPc
    /\ UNCHANGED <<tenantQueues, dpResults, lrVars, sigVars, ehVars>>
    /\ UNCHANGED notTemporal

\* for _, stage := range stages { Sleep; results = append(results, ...) }
DpStage ==
    /\ WorkerRunning
    /\ dpPc = "run"
    /\ Len(dpResults) < Len(stages)
    /\ dpResults' = Append(dpResults, stages[Len(dpResults) + 1])
    /\ UNCHANGED <<dpPc, drvVars, lrVars, sigVars, ehVars>>
    /\ UNCHANGED notTemporal

\* A variant that returns before the last stage.
DpReturnEarly ==
    /\ WorkerRunning
    /\ dpPc = "run"
    /\ Len(dpResults) + 1 >= Len(stages)
    /\ dpPc' = "done"
    /\ UNCHANGED <<dpResults, drvVars, lrVars, sigVars, ehVars>>
    /\ UNCHANGED notTemporal

\* return finalResult, nil
DpReturn ==
    /\ WorkerRunning
    /\ dpPc = "run"
    /\ Len(dpResults) = Len(stages)
    /\ dpPc' = "done"
    /\ UNCHANGED <<dpResults, drvVars, lrVars, sigVars, ehVars>>
    /\ UNCHANGED notTemporal

\* err = pipelineWE.Get(context.Background(), &result)
DrvAwaitPipeline ==
    /\ drvPc = "await2"
    /\ dpPc = "done"
    /\ drvPc' = "test3"
    /\ UNCHANGED <<tenantQueues, dpVars, lrVars, sigVars, ehVars>>
    /\ UNCHANGED notTemporal

\* TEST 3: for _, customer := range customers: the options are built and
\* logged; no workflow is started.
DrvTenant ==
    /\ drvPc = "test3"
    /\ IF Len(tenantQueues) < Len(customers)
       THEN /\ tenantQueues' = Append(tenantQueues,
                                      TenantTaskQueue(customers[Len(tenantQueues) + 1]))
            /\ drvPc' = drvPc
       ELSE /\ drvPc' = "test4"
            /\ tenantQueues' = tenantQueues
    /\ UNCHANGED <<dpVars, lrVars, sigVars, ehVars>>
    /\ UNCHANGED notTemporal

\* TEST 4: c.ExecuteWorkflow(..., LongRunningWorkflow, 5)
DrvStartLong ==
    /\ drvPc = "test4"
    /\ \/ /\ drvPc' = "pause"
          /\ lrPc' = "loop"
          /\ lrDays' = LongDays
          /\ lrDay' = 1
          /\ isPaused' = FALSE
          /\ processedDays' = 0
       \/ /\ drvPc' = "test5"
          /\ UNCHANGED lrVars
    /\ UNCHANGED <<tenantQueues, dpVars, sigVars, ehVars>>
    /\ UNCHANGED notTemporal

\* Any client of the server starts the registered LongRunningWorkflow on the
\* worker's task queue, with an argument of its choice.
ClientStartLong(days) ==
    /\ WorkerRunning
    /\ lrPc = "idle"
    /\ lrPc' = "loop"
    /\ lrDays' = days
    /\ lrDay' = 1
    /\ isPaused' = FALSE
    /\ processedDays' = 0
    /\ UNCHANGED <<drvVars, dpVars, sigVars, ehVars>>
    /\ UNCHANGED notTemporal

\* time.Sleep(2s); c.SignalWorkflow(..., "pause", nil): the signal reaches an
\* open workflow, and is an error the driver only skips a log line for on a
\* closed one.
DrvSendPause ==
    /\ drvPc = "pause"
    /\ drvPc' = "resume"
    /\ IF LongOpen
       THEN /\ pauseChan' = Append(pauseChan, NilPayload)
            /\ pausePending' = TRUE
       ELSE UNCHANGED <<pauseChan, pausePending>>
    /\ UNCHANGED <<tenantQueues, dpVars, lrVars, resumeChan, clientSignals, ehVars>>
    /\ UNCHANGED notTemporal

\* time.Sleep(2s); c.SignalWorkflow(..., "resume", nil)
DrvSendResume ==
    /\ drvPc = "resume"
    /\ drvPc' = "test5"
    /\ IF LongOpen
       THEN /\ resumeChan' = Append(resumeChan, NilPayload)
            /\ pausePending' = FALSE
       ELSE UNCHANGED <<resumeChan, pausePending>>
    /\ UNCHANGED <<tenantQueues, dpVars, lrVars, pauseChan, clientSignals, ehVars>>
    /\ UNCHANGED notTemporal

\* Another client of the Temporal server signals the open workflow.
ClientSignal ==
    /\ LongOpen
    /\ clientSignals < MaxClientSignals
    /\ clientSignals' = clientSignals + 1
    /\ \E payload \in Payloads :
          \/ /\ pauseChan' = Append(pauseChan, payload)
             /\ pausePending' = TRUE
             /\ resumeChan' = resumeChan
          \/ /\ resumeChan' = Append(resumeChan, payload)
             /\ pausePending' = FALSE
             /\ pauseChan' = pauseChan
    /\ UNCHANGED <<drvVars, dpVars, lrVars, ehVars>>
    /\ UNCHANGED notTemporal

\* LongRunningWorkflow, from the loop condition to the next blocking call:
\* the pause check, then either the wait for resume or the day's Sleep.
LrLoop ==
    /\ WorkerRunning
    /\ lrPc = "loop"
    /\ IF lrDay <= lrDays
       THEN LET pauseSignal == ReceiveAsync(pauseChan)
                paused == PausedAfter(isPaused, pauseSignal)
            IN /\ pauseChan' = IF pauseChan = <<>> THEN pauseChan ELSE Tail(pauseChan)
               /\ isPaused' = paused
               /\ lrPc' = IF paused THEN "wait" ELSE "sleep"
       ELSE \* return "Processed %d days of analytics", nil
            /\ lrPc' = "done"
            /\ UNCHANGED <<pauseChan, isPaused>>
    /\ UNCHANGED <<lrDays, lrDay, processedDays, resumeChan, pausePending, clientSignals>>
    /\ UNCHANGED <<drvVars, dpVars, ehVars>>
    /\ UNCHANGED notTemporal

\* A variant that leaves isPaused set after the resume signal.
LrResumeStillPaused ==
    /\ WorkerRunning
    /\ lrPc = "wait"
    /\ resumeChan # <<>>
    /\ resumeChan' = Tail(resumeChan)
    /\ isPaused' = TRUE
    /\ lrPc' = "sleep"
    /\ UNCHANGED <<lrDays, lrDay, processedDays, pauseChan, pausePending, clientSignals>>
    /\ UNCHANGED <<drvVars, dpVars, ehVars>>
    /\ UNCHANGED notTemporal

\* resumeChan.Receive(ctx, &resumeSignal); isPaused = false
LrResume ==
    /\ WorkerRunning
    /\ lrPc = "wait"
    /\ resumeChan # <<>>
    /\ resumeChan' = Tail(resumeChan)
    /\ isPaused' = FALSE
    /\ lrPc' = "sleep"
    /\ UNCHANGED <<lrDays, lrDay, processedDays, pauseChan, pausePending, clientSignals>>
    /\ UNCHANGED <<drvVars, dpVars, ehVars>>
    /\ UNCHANGED notTemporal

\* A variant whose loop advances by two days.
LrDayDoneSkipping ==
    /\ WorkerRunning
    /\ lrPc = "sleep"
    /\ processedDays' = processedDays + 1
    /\ lrDay' = lrDay + 2
    /\ lrPc' = "loop"
    /\ UNCHANGED <<lrDays, isPaused, sigVars>>
    /\ UNCHANGED <<drvVars, dpVars, ehVars>>
    /\ UNCHANGED notTemporal

\* workflow.Sleep(ctx, 1s) returns; processedDays++; day++
LrDayDone ==
    /\ WorkerRunning
    /\ lrPc = "sleep"
    /\ processedDays' = processedDays + 1
    /\ lrDay' = lrDay + 1
    /\ lrPc' = "loop"
    /\ UNCHANGED <<lrDays, isPaused, sigVars>>
    /\ UNCHANGED <<drvVars, dpVars, ehVars>>
    /\ UNCHANGED notTemporal

\* status(handle) of the LongRunningWorkflow execution, as the server would
\* report it with the workflow's own isPaused.
LongStatus ==
    CASE lrPc = "idle" -> "NotStarted"
      [] lrPc = "done" -> "Completed"
      [] isPaused -> "Paused"
      [] OTHER -> "Running"

\* The executions the program has started with c.ExecuteWorkflow so far,
\* each with the task queue of its start options.
StartedExecutions ==
    (IF dpPc # "idle"
     THEN {[workflow |-> "DataPipelineWorkflow", queue |-> WorkerTaskQueue]} ELSE {})
    \cup (IF lrPc # "idle"
          THEN {[workflow |-> "LongRunningWorkflow", queue |-> WorkerTaskQueue]} ELSE {})
    \cup (IF ehPc # "idle"
          THEN {[workflow |-> "ErrorHandlingWorkflow", queue |-> WorkerTaskQueue]} ELSE {})

\* TEST 5: c.ExecuteWorkflow(..., ErrorHandlingWorkflow)
DrvStartError ==
    /\ drvPc = "test5"
    /\ \/ /\ drvPc' = "await5"
          /\ ehPc' = "run"
          /\ ehAttempt' = 1
       \/ /\ drvPc' = "summary"
          /\ UNCHANGED <<ehPc, ehAttempt>>
    /\ UNCHANGED <<tenantQueues, dpVars, lrVars, sigVars, ehCalls, ehResult, ehErr>>
    /\ UNCHANGED notTemporal

\* A variant that retries once more than the retry policy allows.
EhAttemptOnceMore ==
    /\ WorkerRunning
    /\ ehPc = "run"
    /\ LET r == RetryableActivity(ActivityArgument)
       IN /\ ehCalls' = Append(ehCalls, ActivityArgument)
          /\ IF ~r.err
             THEN /\ ehPc' = "done"
                  /\ ehResult' = r.result
                  /\ ehErr' = FALSE
                  /\ ehAttempt' = ehAttempt
             ELSE IF ehAttempt <= MaximumAttempts
             THEN /\ ehAttempt' = ehAttempt + 1
                  /\ UNCHANGED <<ehPc, ehResult, ehErr>>
             ELSE \* if err != nil { return "", err }
                  /\ ehPc' = "done"
                  /\ ehResult' = ""
                  /\ ehErr' = TRUE
                  /\ ehAttempt' = ehAttempt
    /\ UNCHANGED <<drvVars, dpVars, lrVars, sigVars>>
    /\ UNCHANGED notTemporal

\* workflow.ExecuteActivity(ctx, RetryableActivity, attemptNumber).Get(...):
\* one attempt of the activity; a failed attempt is retried with the same
\* argument until the retry policy's MaximumAttempts.
EhAttempt ==
    /\ WorkerRunning
    /\ ehPc = "run"
    /\ LET r == RetryableActivity(ActivityArgument)
       IN /\ ehCalls' = Append(ehCalls, ActivityArgument)
          /\ IF ~r.err
             THEN /\ ehPc' = "done"
                  /\ ehResult' = r.result
                  /\ ehErr' = FALSE
                  /\ ehAttempt' = ehAttempt
             ELSE IF ehAttempt < MaximumAttempts
             THEN /\ ehAttempt' = ehAttempt + 1
                  /\ UNCHANGED <<ehPc, ehResult, ehErr>>
             ELSE \* if err != nil { return "", err }
                  /\ ehPc' = "done"
                  /\ ehResult' = ""
                  /\ ehErr' = TRUE
                  /\ ehAttempt' = ehAttempt
    /\ UNCHANGED <<drvVars, dpVars, lrVars, sigVars>>
    /\ UNCHANGED notTemporal

\* err = errorWE.Get(context.Background(), &result)
DrvAwaitError ==
    /\ drvPc = "await5"
    /\ ehPc = "done"
    /\ drvPc' = "summary"
    /\ UNCHANGED <<tenantQueues, dpVars, lrVars, sigVars, ehVars>>
    /\ UNCHANGED notTemporal

\* The summary is logged and main returns; the worker ends with the process.
DrvSummary ==
    /\ drvPc = "summary"
    /\ drvPc' = "exit"
    /\ UNCHANGED <<tenantQueues, dpVars, lrVars, sigVars, ehVars>>
    /\ UNCHANGED notTemporal

\* A client of the Temporal server requests the cancellation of an open
\* execution: its context is cancelled. From then on workflow.Sleep returns
\* at once with a CanceledError, which both workflows drop, and a Receive on
\* a signal channel still waits for its signal; so the workflows' own steps
\* stay as they are.
ClientCancel(workflow) ==
    /\ workflow \notin cancelRequested
    /\ \/ workflow = "DataPipelineWorkflow" /\ dpPc = "run"
       \/ workflow = "LongRunningWorkflow" /\ LongOpen
    /\ cancelRequested' = cancelRequested \cup {workflow}
    /\ UNCHANGED temporalVars
    /\ UNCHANGED notClient

NextTemporal ==
    \/ DrvDial
    \/ WorkerFailed
    \/ DrvStartPipeline
    \/ DpStage
    \/ DpReturn
    \/ DrvAwaitPipeline
    \/ DrvTenant
    \/ DrvStartLong
    \/ DrvSendPause
    \/ DrvSendResume
    \/ ClientSignal
    \/ LrLoop
    \/ LrResume
    \/ LrDayDone
    \/ DrvStartError
    \/ EhAttempt
    \/ DrvAwaitError
    \/ DrvSummary

-----------------------------------------------------------------------------
(* The request path: pure components                                       *)

\* A token of a request text: a word or a number.
Word(w) == [isNum |-> FALSE, word |-> w, num |-> 0]
Num(n) == [isNum |-> TRUE, word |-> "", num |-> n]

TextAdd == "Calculate 42 + 58"
TextSum == "Calculate 100 + 50"
TextMulIt == "Multiply it by 2"
TextThen == "calculate 10 + 5, then multiply by 3"
TextPipeline == "run data pipeline to extract and transform customer data"
TextUnknown == "hello there"
TextThenDiv == "calculate 10 + 5, then divide by 0"

Texts == {TextAdd, TextSum, TextMulIt, TextThen, TextPipeline, TextUnknown}

\* The texts of the calculator example's session.
MathTexts == {TextAdd, TextSum, TextMulIt}

\* Texts whose plans update one session: a one-step plan, a two-step plan
\* and a plan that reads the session.
SessionTexts == {TextSum, TextThen, TextMulIt}

\* Texts that exercise the executor: a plain sum, a reference to the session
\* and a plan whose second step fails.
ExecTexts == {TextSum, TextMulIt, TextThenDiv}

\* The tokens of a text, lower-cased.
Tokens(text) ==
    CASE text = TextAdd -> <<Word("calculate"), Num(42), Word("+"), Num(58)>>
      [] text = TextSum -> <<Word("calculate"), Num(100), Word("+"), Num(50)>>
      [] text = TextMulIt -> <<Word("multiply"), Word("it"), Word("by"), Num(2)>>
      [] text = TextThen -> <<Word("calculate"), Num(10), Word("+"), Num(5), Word("then"),
                              Word("multiply"), Word("by"), Num(3)>>
      [] text = TextPipeline -> <<Word("run"), Word("data"), Word("pipeline"), Word("to"),
                                  Word("extract"), Word("and"), Word("transform"),
                                  Word("customer"), Word("data")>>
      [] text = TextUnknown -> <<Word("hello"), Word("there")>>
      [] text = TextThenDiv -> <<Word("calculate"), Num(10), Word("+"), Num(5), Word("then"),
                                 Word("divide"), Word("by"), Num(0)>>
      [] OTHER -> <<>>

SessionIds == {"calc-demo", "other"}

\* The four arithmetic operators, by symbol or by verb.
OperatorOf(w) ==
    CASE w \in {"+", "plus", "add"} -> "+"
      [] w \in {"-", "minus", "subtract"} -> "-"
      [] w \in {"*", "times", "multiply"} -> "*"
      [] w \in {"/", "divide"} -> "/"
      [] OTHER -> ""

ReferenceWords == {"it", "that"}

Entity(kind, num, op) == [kind |-> kind, num |-> num, op |-> op]

\* extract(text): numbers, operators and references in text order; every
\* other token is dropped.
RECURSIVE extract(_)
extract(text) ==
    IF text = <<>> THEN <<>>
    ELSE LET t == Head(text)
             rest == extract(Tail(text))
         IN IF t.isNum THEN <<Entity("number", t.num, "")>> \o rest
            ELSE IF OperatorOf(t.word) # "" THEN <<Entity("operator", 0, OperatorOf(t.word))>> \o rest
            ELSE IF t.word \in ReferenceWords THEN <<Entity("reference", 0, "")>> \o rest
            ELSE rest

\* The classifier's ordered rule list: a rule matches a text that holds one
\* of its words.
ClassifierRules ==
    << [id |-> 1, domain |-> "complex_workflow",
        words |-> {"pipeline", "deploy", "onboard", "analytics"}],
       [id |-> 2, domain |-> "simple_math",
        words |-> {"calculate", "multiply", "add", "subtract", "divide", "+", "-", "*", "/"}] >>

WordsOf(text) == {text[i].word : i \in {j \in 1..Len(text) : ~text[j].isNum}}

RuleMatches(rule, text) == rule.words \cap WordsOf(text) # {}

\* classify(text): the first matching rule wins; no match is "unknown".
classify(text) ==
    LET hits == {i \in 1..Len(ClassifierRules) : RuleMatches(ClassifierRules[i], text)}
    IN IF hits = {} THEN [domain |-> "unknown", rule |-> 0]
       ELSE LET first == CHOOSE i \in hits : \A j \in hits : i <= j
            IN [domain |-> ClassifierRules[first].domain, rule |-> ClassifierRules[first].id]

\* The entities of one kind, in order.
OfKind(entities, kinds) == SelectSeq(entities, LAMBDA e : e.kind \in kinds)

Operand(src, num) == [src |-> src, num |-> num]
Step(tool, op, lhs, rhs) == [tool |-> tool, op |-> op, lhs |-> lhs, rhs |-> rhs]
NoOperand == Operand("none", 0)

OperandOf(e) == IF e.kind = "reference" THEN Operand("ref", 0) ELSE Operand("lit", e.num)

\* decompose(Classification, Entities, Session): a math text gives one
\* Calculator step per operator, each applied to the running value and the
\* next operand, after a ResolveReference step when the text refers to "it".
\* ok is FALSE for a DecompositionError.
decompose(cls, entities) ==
    LET numbers == OfKind(entities, {"number"})
        operands == OfKind(entities, {"number", "reference"})
        ops == OfKind(entities, {"operator"})
        refs == OfKind(entities, {"reference"})
        calc == [k \in 1..Len(ops) |->
                    Step("Calculator", ops[k].op,
                         IF k = 1 THEN OperandOf(operands[1]) ELSE Operand("acc", 0),
                         OperandOf(operands[k + 1]))]
    IN IF cls.domain # "simple_math" \/ numbers = <<>> \/ ops = <<>>
          \/ Len(operands) # Len(ops) + 1
       THEN [ok |-> FALSE, plan |-> <<>>]
       ELSE [ok |-> TRUE,
             plan |-> (IF refs # <<>>
                       THEN <<Step("ResolveReference", "", NoOperand, NoOperand)>>
                       ELSE <<>>) \o calc]

\* classify -> extract -> decompose of each text: the pipeline is a function
\* of the text alone.
Classified == [text \in Texts \cup ExecTexts |-> classify(Tokens(text))]
Decomposed == [text \in Texts \cup ExecTexts |-> decompose(Classified[text], extract(Tokens(text)))]

\* The number of steps the decomposition of this text has.
StepCount(text) == Len(Decomposed[text].plan)

\* Variants of the code, each with one plausible fault.
calculateSubtracting(a, b) == a - b
calculateCounting(a, b) == a + b + requests

\* func calculateDeterministic(a, b int) int { return a + b }
calculateDeterministic(a, b) == a + b

\* The calculator tool. ok is FALSE for a ToolExecutionError.
Calculator(op, a, b) ==
    CASE op = "+" -> [ok |-> TRUE, value |-> calculateDeterministic(a, b)]
      [] op = "-" -> [ok |-> TRUE, value |-> a - b]
      [] op = "*" -> [ok |-> TRUE, value |-> a * b]
      [] op = "/" -> IF b = 0 THEN [ok |-> FALSE, value |-> 0]
                     ELSE [ok |-> TRUE, value |-> a \div b]
      [] OTHER -> [ok |-> FALSE, value |-> 0]

-----------------------------------------------------------------------------
(* The router                                                              *)

FastPath == "fast"
TemporalPath == "durable"

\* The domains whose requests need the durable route.
DurabilityAllowList == {"complex_workflow"}

\* What the router reads of a request: its domain and the number of steps
\* its decomposition has.
Routed(domain, steps) == [domain |-> domain, steps |-> steps]

requiresDurability(c) == c.domain \in DurabilityAllowList

isSimpleCalculation(c) == c.domain = "simple_math"

hasMultipleStages(c, n) == c.steps > n

\* A variant that asks hasMultipleStages before isSimpleCalculation.
routeRequestStagesFirst(c, n) ==
    IF requiresDurability(c) THEN TemporalPath
    ELSE IF hasMultipleStages(c, n) THEN TemporalPath
    ELSE FastPath

\* func routeRequest(req ExecuteRequest) ExecutionPath, as documented
routeRequest(c, n) ==
    IF requiresDurability(c) THEN TemporalPath
    ELSE IF isSimpleCalculation(c) THEN FastPath
    ELSE IF hasMultipleStages(c, n) THEN TemporalPath
    ELSE FastPath

\* route(Request, Classification) in the strict priority order of the design
route(c, n) ==
    IF c.domain \in DurabilityAllowList THEN TemporalPath
    ELSE IF c.domain = "unknown" THEN TemporalPath
    ELSE IF c.steps > n THEN TemporalPath
    ELSE FastPath

-----------------------------------------------------------------------------
(* The hot-reload coordinator                                              *)

Branches == {"main", "customer/acme-corp"}

Kinds == {"tool", "workflow", "config"}

\* The definitions each registry can hold.
NamesOf(kind) ==
    CASE kind = "tool" -> {"Calculator", "ResolveReference"}
      [] kind = "workflow" -> {"DataPipelineWorkflow"}
      [] kind = "config" -> {"precision"}

\* A changed path: its inferred kind, the name it defines, and whether its
\* content parses and passes the schema.
Change(kind, name, schemaOk) ==
    [kind |-> kind, name |-> name, schemaOk |-> schemaOk, removed |-> FALSE]

\* A changed path that is the deletion of a definition.
Removed(kind, name) == [kind |-> kind, name |-> name, schemaOk |-> TRUE, removed |-> TRUE]

\* The version a change leaves under its name: none (0) after a deletion.
VersionAfter(change, version) == IF change.removed THEN 0 ELSE version

\* The changed paths the watcher reports: a Calculator definition, good or
\* broken, a workflow definition and a configuration value.
Changes ==
    {Change("tool", "Calculator", TRUE), Change("tool", "Calculator", FALSE),
     Change("workflow", "DataPipelineWorkflow", TRUE), Change("config", "precision", TRUE)}

\* A snapshot: per registry the version installed under each name (0: none),
\* and the revision.
Snapshot(tool, workflow, config, revision) ==
    [tool |-> tool, workflow |-> workflow, config |-> config, revision |-> revision]

BaseSnapshot ==
    Snapshot([n \in NamesOf("tool") |-> 1], [n \in NamesOf("workflow") |-> 1],
             [n \in NamesOf("config") |-> 1], 1)

\* A variant that reloads tools only.
ReloadToolsOnly(snap, change, version) ==
    IF change.kind = "tool"
    THEN [snap EXCEPT !.tool = [@ EXCEPT ![change.name] = VersionAfter(change, version)]]
    ELSE snap

\* func (r *HotReloader) Reload(change GitChange): the registry that the
\* change's file type selects gets the definition, as a new object of the
\* new revision.
Reload(snap, change, version) ==
    CASE change.kind = "tool" ->
            [snap EXCEPT !.tool = [@ EXCEPT ![change.name] = VersionAfter(change, version)]]
      [] change.kind = "workflow" ->
            [snap EXCEPT !.workflow = [@ EXCEPT ![change.name] = VersionAfter(change, version)]]
      [] change.kind = "config" ->
            [snap EXCEPT !.config = [@ EXCEPT ![change.name] = VersionAfter(change, version)]]
      [] OTHER -> snap

\* Validation of one change of a batch: it parses and passes the schema, and
\* no change accepted before it in the batch defines the same name.
Validate(change, accepted) ==
    /\ change.schemaOk
    /\ <<change.kind, change.name>> \notin accepted

\* The batch applied change by change to a clone of the previous snapshot:
\* a valid change is installed, an invalid one is counted and skipped.
RECURSIVE ApplyBatch(_, _, _, _, _)
ApplyBatch(snap, changes, version, accepted, rejected) ==
    IF changes = <<>>
    THEN [snapshot |-> snap, accepted |-> Cardinality(accepted), rejected |-> rejected]
    ELSE LET c == Head(changes)
         IN IF Validate(c, accepted)
            THEN ApplyBatch(Reload(snap, c, version), Tail(changes), version,
                            accepted \cup {<<c.kind, c.name>>}, rejected)
            ELSE ApplyBatch(snap, Tail(changes), version, accepted, rejected + 1)

\* reload(branch, changes) -> ReloadResult, and the snapshot it installs
reload(prev, changes) ==
    LET r == ApplyBatch(prev, changes, prev.revision + 1, {}, 0)
    IN [snapshot |-> [r.snapshot EXCEPT !.revision = prev.revision + 1],
        accepted |-> r.accepted, rejected |-> r.rejected]

-----------------------------------------------------------------------------
(* The request path: workers, sessions, snapshots                          *)

Workers == {1, 2}

\* A session: whether it holds a last_result, and the value.
EmptySession == [has |-> FALSE, val |-> 0]
StoredSession(v) == [has |-> TRUE, val |-> v]

\* What a ResolveReference step read: nothing yet ("none"), or the session
\* as it was then.
NoRead == [src |-> "none", val |-> 0]
ReadOf(session) == [src |-> "session", val |-> session.val]

\* resolve(tenant_id) -> branch_name, for a request that names no tenant
BaseBranch == "main"

\* History: the request whose result a session holds (none: text "").
NoStored == [text |-> "", result |-> 0]
StoredBy(text, result) == [text |-> text, result |-> result]

\* A worker between requests.
IdleWorker ==
    [pc |-> "idle", text |-> "", sid |-> "", snap |-> BaseSnapshot, path |-> "",
     idx |-> 0, acc |-> 0, read |-> NoRead, after |-> NoStored, overlapped |-> FALSE]

PlanOf(text) == Decomposed[text].plan

\* The value of a step's operand: a literal, the running value, or the
\* value the ResolveReference step read.
ValueOf(operand, w) ==
    CASE operand.src = "lit" -> operand.num
      [] operand.src = "acc" -> w.acc
      [] operand.src = "ref" -> w.read.val
      [] OTHER -> 0

\* One completed request, as the response reports it, with the history the
\* worker kept of it (after, overlapped).
Response(w, success, hasResult, result, error, workflowId) ==
    [text |-> w.text, sid |-> w.sid, revision |-> w.snap.revision, path |-> w.path,
     read |-> w.read, after |-> w.after, overlapped |-> w.overlapped,
     success |-> success, hasResult |-> hasResult, result |-> result, error |-> error,
     workflow_id |-> workflowId]

Failure(w, error) == Response(w, FALSE, FALSE, 0, error, 0)

NoResponse == Response(IdleWorker, FALSE, FALSE, 0, "", 0)

InitServeState ==
    /\ current = [b \in Branches |-> BaseSnapshot]
    /\ reloads = 0
    /\ lastReload = [branch |-> "", changes |-> <<>>, prev |-> BaseSnapshot,
                     accepted |-> 0, rejected |-> 0]
    /\ sessions = [s \in SessionIds |-> EmptySession]
    /\ storedBy = [s \in SessionIds |-> NoStored]
    /\ worker = [w \in Workers |-> IdleWorker]
    /\ requests = 0
    /\ started = 0
    /\ last = NoResponse
    /\ pinned = NoResponse

InitServe ==
    /\ threshold \in 1..MaxThreshold
    /\ InitServeState

\* The request path not serving: the state the other programs run beside.
InitServeIdle ==
    /\ threshold = 1
    /\ InitServeState

reloadVars == <<current, reloads, lastReload>>
requestVars == <<sessions, storedBy, worker, requests, started, last, pinned>>

\* A request arrives and goes to the first idle worker, w: it is classified,
\* its entities extracted, its plan decomposed and its path chosen, against
\* the snapshot that is current now.
Receive(w, text, sid) ==
    /\ worker[w].pc = "idle"
    /\ \A v \in Workers : v < w => worker[v].pc # "idle"
    /\ requests < MaxRequests
    /\ requests' = requests + 1
    /\ LET cls == Classified[text]
           dec == Decomposed[text]
           path == routeRequest(Routed(cls.domain, Len(dec.plan)), threshold)
           recv == [IdleWorker EXCEPT !.text = text, !.sid = sid, !.path = path,
                                      !.snap = current[BaseBranch],
                                      !.after = storedBy[sid]]
       IN IF path = TemporalPath
          THEN /\ worker' = [worker EXCEPT ![w] = [recv EXCEPT !.pc = "durable"]]
               /\ last' = last
          ELSE IF ~dec.ok
          THEN /\ worker' = worker
               /\ last' = Failure(recv, "DecompositionError")
          ELSE /\ worker' = [worker EXCEPT ![w] = [recv EXCEPT !.pc = "fast"]]
               /\ last' = last
    /\ UNCHANGED <<threshold, reloadVars, sessions, storedBy, started, pinned>>
    /\ UNCHANGED notServe

\* Worker w has served its request; the workers still serving a request of
\* the session sid have now overlapped an update of it.
Release(w, sid) ==
    [v \in Workers |->
        IF v = w THEN IdleWorker
        ELSE IF worker[v].pc # "idle" /\ worker[v].sid = sid
        THEN [worker[v] EXCEPT !.overlapped = TRUE]
        ELSE worker[v]]

\* A variant that writes the running value to the session after every step.
ExecStepStoringEachStep(w) ==
    /\ worker[w].pc = "fast"
    /\ LET me == worker[w]
           plan == PlanOf(me.text)
           step == plan[me.idx + 1]
           final == me.idx + 1 = Len(plan)
       IN IF me.snap.tool[step.tool] = 0
          THEN /\ last' = Failure(me, "ToolNotFoundError")
               /\ worker' = [worker EXCEPT ![w] = IdleWorker]
               /\ UNCHANGED <<sessions, storedBy>>
          ELSE IF step.tool = "ResolveReference"
          THEN IF ~sessions[me.sid].has
               THEN /\ last' = Failure(me, "ToolExecutionError")
                    /\ worker' = [worker EXCEPT ![w] = IdleWorker]
                    /\ UNCHANGED <<sessions, storedBy>>
               ELSE /\ worker' = [worker EXCEPT ![w].read = ReadOf(sessions[me.sid]),
                                                ![w].idx = me.idx + 1]
                    /\ UNCHANGED <<last, sessions, storedBy>>
          ELSE LET r == Calculator(step.op, ValueOf(step.lhs, me), ValueOf(step.rhs, me))
               IN IF ~r.ok
                  THEN /\ last' = Failure(me, "ToolExecutionError")
                       /\ worker' = [worker EXCEPT ![w] = IdleWorker]
                       /\ UNCHANGED <<sessions, storedBy>>
                  ELSE IF final
                  THEN /\ last' = Response(me, TRUE, TRUE, r.value, "", 0)
                       /\ sessions' = [sessions EXCEPT ![me.sid] = StoredSession(r.value)]
                       /\ storedBy' = [storedBy EXCEPT ![me.sid] = StoredBy(me.text, r.value)]
                       /\ worker' = Release(w, me.sid)
                  ELSE /\ worker' = [worker EXCEPT ![w].acc = r.value,
                                                   ![w].idx = me.idx + 1]
                       /\ sessions' = [sessions EXCEPT ![me.sid] = StoredSession(r.value)]
                       /\ UNCHANGED <<last, storedBy>>
    /\ UNCHANGED <<threshold, reloadVars, requests, started, pinned>>
    /\ UNCHANGED notServe

\* execute(plan, snapshot, session): worker w runs the next step of its plan.
ExecStep(w) ==
    /\ worker[w].pc = "fast"
    /\ LET me == worker[w]
           plan == PlanOf(me.text)
           step == plan[me.idx + 1]
           final == me.idx + 1 = Len(plan)
       IN IF me.snap.tool[step.tool] = 0
          THEN /\ last' = Failure(me, "ToolNotFoundError")
               /\ worker' = [worker EXCEPT ![w] = IdleWorker]
               /\ UNCHANGED <<sessions, storedBy>>
          ELSE IF step.tool = "ResolveReference"
          THEN IF ~sessions[me.sid].has
               THEN /\ last' = Failure(me, "ToolExecutionError")
                    /\ worker' = [worker EXCEPT ![w] = IdleWorker]
                    /\ UNCHANGED <<sessions, storedBy>>
               ELSE /\ worker' = [worker EXCEPT ![w].read = ReadOf(sessions[me.sid]),
                                                ![w].idx = me.idx + 1]
                    /\ UNCHANGED <<last, sessions, storedBy>>
          ELSE LET r == Calculator(step.op, ValueOf(step.lhs, me), ValueOf(step.rhs, me))
               IN IF ~r.ok
                  THEN /\ last' = Failure(me, "ToolExecutionError")
                       /\ worker' = [worker EXCEPT ![w] = IdleWorker]
                       /\ UNCHANGED <<sessions, storedBy>>
                  ELSE IF final
                  THEN /\ last' = Response(me, TRUE, TRUE, r.value, "", 0)
                       /\ sessions' = [sessions EXCEPT ![me.sid] = StoredSession(r.value)]
                       /\ storedBy' = [storedBy EXCEPT ![me.sid] = StoredBy(me.text, r.value)]
                       /\ worker' = Release(w, me.sid)
                  ELSE /\ worker' = [worker EXCEPT ![w].acc = r.value,
                                                   ![w].idx = me.idx + 1]
                       /\ UNCHANGED <<last, sessions, storedBy>>
    /\ UNCHANGED <<threshold, reloadVars, requests, started, pinned>>
    /\ UNCHANGED notServe

\* A variant that keeps the running value of the aborted plan in the session.
CancelKeepingPartial(w) ==
    /\ worker[w].pc = "fast"
    /\ last' = Failure(worker[w], "Cancelled")
    /\ worker' = [worker EXCEPT ![w] = IdleWorker]
    /\ sessions' = [sessions EXCEPT ![worker[w].sid] = StoredSession(worker[w].acc)]
    /\ UNCHANGED <<threshold, reloadVars, storedBy, requests, started, pinned>>
    /\ UNCHANGED notServe

\* The request context of worker w is cancelled: the executor sees it before
\* the next step of the plan and aborts, leaving the session as it is.
Cancel(w) ==
    /\ worker[w].pc = "fast"
    /\ last' = Failure(worker[w], "Cancelled")
    /\ worker' = [worker EXCEPT ![w] = IdleWorker]
    /\ UNCHANGED <<threshold, reloadVars, sessions, storedBy, requests, started, pinned>>
    /\ UNCHANGED notServe

\* start(workflow_type, tenant_id, params): the durable execution starts and
\* the response carries its workflow_id, or the start exhausts its retries.
StartWorkflow(w) ==
    /\ worker[w].pc = "durable"
    /\ \E ok \in BOOLEAN :
          IF ok
          THEN /\ started' = started + 1
               /\ last' = Response(worker[w], TRUE, FALSE, 0, "", started + 1)
          ELSE /\ started' = started
               /\ last' = Failure(worker[w], "DurablePathUnavailableError")
    /\ worker' = [worker EXCEPT ![w] = IdleWorker]
    /\ UNCHANGED <<threshold, reloadVars, sessions, storedBy, requests, pinned>>
    /\ UNCHANGED notServe

\* The bodies of the start requests the suite posts to
\* /api/v1/temporal/workflows/execute: a registered workflow type, an
\* unknown one, and a body without workflow_type.
StartBody(fields, workflowType) == [fields |-> fields, workflow_type |-> workflowType]

ValidStart == StartBody({"workflow_type", "customer_id", "parameters", "async"},
                        "DataPipelineWorkflow")
InvalidTypeStart == StartBody({"workflow_type", "customer_id", "parameters", "async"},
                              "NonExistentWorkflow")
MalformedStart == StartBody({"invalid_field"}, "")

StartBodies == {ValidStart, InvalidTypeStart, MalformedStart}

\* A variant that takes every workflow type for a registered one.
KnownWorkflowAlways(snap, workflowType) == TRUE

\* Whether the snapshot's workflow registry holds a definition of this type.
KnownWorkflow(snap, workflowType) ==
    /\ workflowType \in DOMAIN snap.workflow
    /\ snap.workflow[workflowType] > 0

\* A start request posted directly to the durable path: the body is
\* validated, the workflow type looked up in the current snapshot, and only
\* then is the execution started (or the start exhausts its retries).
StartRequested(body) ==
    /\ requests < MaxRequests
    /\ requests' = requests + 1
    /\ LET snap == current[BaseBranch]
           me == [IdleWorker EXCEPT !.text = body.workflow_type, !.path = TemporalPath,
                                    !.snap = snap]
       IN IF "workflow_type" \notin body.fields
          THEN /\ last' = Failure(me, "ValidationError")
               /\ started' = started
          ELSE IF ~KnownWorkflow(snap, body.workflow_type)
          THEN /\ last' = Failure(me, "WorkflowNotFound")
               /\ started' = started
          ELSE \E ok \in BOOLEAN :
                  IF ok
                  THEN /\ started' = started + 1
                       /\ last' = Response(me, TRUE, FALSE, 0, "", started + 1)
                  ELSE /\ started' = started
                       /\ last' = Failure(me, "DurablePathUnavailableError")
    /\ UNCHANGED <<threshold, reloadVars, sessions, storedBy, worker, pinned>>
    /\ UNCHANGED notServe

\* History: the latest response is kept, to compare later runs with it.
Pin ==
    /\ pinned = NoResponse
    /\ last # NoResponse
    /\ pinned' = last
    /\ UNCHANGED <<threshold, reloadVars, sessions, storedBy, worker, requests, started, last>>
    /\ UNCHANGED notServe

\* reload(branch, changes): the new snapshot replaces the branch's current
\* one in one step.
DoReload(branch, changes) ==
    /\ reloads < MaxReloads
    /\ reloads' = reloads + 1
    /\ LET r == reload(current[branch], changes)
       IN /\ current' = [current EXCEPT ![branch] = r.snapshot]
          /\ lastReload' = [branch |-> branch, changes |-> changes, prev |-> current[branch],
                            accepted |-> r.accepted, rejected |-> r.rejected]
    /\ UNCHANGED <<threshold, requestVars>>
    /\ UNCHANGED notServe

\* The watcher reports a changed Calculator definition of the base branch
\* while requests are served.
ReloadChange ==
    \E c \in {x \in Changes : x.kind = "tool"} : DoReload(BaseBranch, <<c>>)

\* The watcher reports the deletion of a tool definition of the base branch.
ToolRemoved ==
    \E name \in NamesOf("tool") : DoReload(BaseBranch, <<Removed("tool", name)>>)

\* The watcher reports a changed or deleted workflow definition of the base
\* branch.
WorkflowChanged ==
    \E name \in NamesOf("workflow") :
       \E c \in {Change("workflow", name, TRUE), Removed("workflow", name)} :
          DoReload(BaseBranch, <<c>>)

\* The watcher reports a batch of changed paths.
Batches == UNION {[1..n -> Changes] : n \in 0..MaxBatch}

ReloadBatch == \E b \in Branches, changes \in Batches : DoReload(b, changes)

NextServe ==
    \/ \E w \in Workers, text \in Texts, sid \in SessionIds : Receive(w, text, sid)
    \/ \E w \in Workers : ExecStep(w)
    \/ \E w \in Workers : StartWorkflow(w)

\* The requests of the calculator example, and an observer of two runs.
NextRuns ==
    \/ \E w \in Workers, text \in MathTexts : Receive(w, text, "calc-demo")
    \/ \E w \in Workers : ExecStep(w)
    \/ Pin
    \/ ReloadChange

NextReload == ReloadBatch

\* Start requests against the workflow registry while it is reloaded.
NextStart ==
    \/ \E body \in StartBodies : StartRequested(body)
    \/ WorkflowChanged

\* Concurrent requests on one session.
NextSession ==
    \/ \E w \in Workers, text \in SessionTexts : Receive(w, text, "calc-demo")
    \/ \E w \in Workers : ExecStep(w)

\* The two plan runners side by side: the executor on the steps of a plan,
\* and DataPipelineWorkflow on its stages as TEST 2 starts and awaits it.
NextPlans ==
    \/ \E w \in Workers, text \in ExecTexts : Receive(w, text, "calc-demo")
    \/ \E w \in Workers : ExecStep(w)
    \/ DrvDial
    \/ WorkerFailed
    \/ DrvStartPipeline
    \/ DpStage
    \/ DpReturn
    \/ DrvAwaitPipeline

-----------------------------------------------------------------------------
(* The branch manager                                                      *)

\* The tenant ids a request can carry: none (""), and three customers.
TenantIds == {"", "acme-corp", "globex-inc", "initech"}

\* func (m *BranchManager) GetTenantBranch(tenantID string) string
GetTenantBranch(tenantID) == "customer/" \o tenantID

InitTenant ==
    /\ tenantBranches = {}
    /\ resolutions = <<>>

\* ./setup-tenant.sh <tenant> creates the Git branch customer/<tenant>; the
\* manager's tenantBranches then maps the tenant to it.
SetupTenant(tenantID) ==
    /\ tenantID # ""
    /\ \A e \in tenantBranches : e.tenant # tenantID
    /\ tenantBranches' =
          tenantBranches \cup {[tenant |-> tenantID, branch |-> "customer/" \o tenantID]}
    /\ UNCHANGED resolutions
    /\ UNCHANGED notTenant

\* A registry lookup for a request of this tenant resolves its branch.
Resolve(tenantID) ==
    /\ Len(resolutions) < MaxResolutions
    /\ resolutions' =
          Append(resolutions,
                 [tenant |-> tenantID,
                  mapped |-> \E e \in tenantBranches : e.tenant = tenantID,
                  branch |-> GetTenantBranch(tenantID)])
    /\ UNCHANGED tenantBranches
    /\ UNCHANGED notTenant

NextTenant ==
    \/ \E t \in TenantIds : SetupTenant(t)
    \/ \E t \in TenantIds : Resolve(t)

\* The executor under every outcome of a step: success, a failing tool, a
\* tool deleted by a reload, a cancelled request.
NextExec ==
    \/ \E w \in Workers, text \in ExecTexts, sid \in SessionIds : Receive(w, text, sid)
    \/ \E w \in Workers : ExecStep(w)
    \/ \E w \in Workers : Cancel(w)
    \/ ToolRemoved

-----------------------------------------------------------------------------
(* The integration test suite                                              *)

\* for i := 0; i < 60; i++ in waitForServices
MaxProbes == 60

\* The type a response map holds under a key: "nil" when the key is absent.
\* success is "true", "false" or "nil"; total is the number under "total".
ResponseMap(success, hasError, totalType, total, workflowIdType, runIdType) ==
    [success |-> success, error |-> hasError, totalType |-> totalType,
     total |-> total, workflow_id |-> workflowIdType, run_id |-> runIdType]

\* map[string]interface{}{"success": false, "error": err.Error()}
FailureMap == ResponseMap("false", TRUE, "nil", 0, "nil", "nil")

\* What can come of one request: the transport fails (client.Do), reading
\* the body fails (io.ReadAll), the body is not a JSON object
\* (json.Unmarshal), or the body is one of these objects from the server:
\* a complete success, a refusal, a success that carries no run_id, a
\* success whose total is 0. (json.Marshal and http.NewRequest cannot fail
\* on the suite's fixed payloads and endpoints.)
Failures == {"transport", "read", "decode"}
Bodies == {"ok", "refused", "noRunId", "noneActive"}

Body(body) ==
    CASE body = "ok" -> ResponseMap("true", FALSE, "float64", 1, "string", "string")
      [] body = "refused" -> ResponseMap("false", TRUE, "nil", 0, "nil", "nil")
      [] body = "noRunId" -> ResponseMap("true", FALSE, "float64", 1, "string", "nil")
      [] body = "noneActive" -> ResponseMap("true", FALSE, "float64", 0, "string", "string")

\* func (ts *TestSuite) makeRequest(method, endpoint, payload): every failure
\* returns the failure map, otherwise the decoded body is returned.
makeRequest(outcome) ==
    IF outcome \in Failures THEN FailureMap ELSE Body(outcome)

\* The outcomes a request can have with the server in this state: a server
\* that is not up answers nothing.
Outcomes(srv) == IF srv = "up" THEN Bodies \cup {"read", "decode"} ELSE {"transport"}

\* TestResult{Name, Success}
TestResult(name, success) == [Name |-> name, Success |-> success]

\* The control calls of testWorkflowSignaling, in the order of its code.
ControlCalls == <<"status", "pause", "resume", "query", "cancel">>

\* The name of the TestResult each of the first four control calls records.
ControlResult(call) ==
    CASE call = "status" -> "Workflow Status Query"
      [] call = "pause" -> "Workflow Pause Signal"
      [] call = "resume" -> "Workflow Resume Signal"
      [] call = "query" -> "Workflow Query"

InitSuiteIdle ==
    /\ server = "down"
    /\ tsPc = "none"
    /\ probes = 0
    /\ tsReady = FALSE
    /\ tsSent = FALSE
    /\ tsResults = <<>>
    /\ tsStart = "none"
    /\ tsCalls = <<>>

\* main: the suite is constructed with no results; the services may or may
\* not be running yet.
InitSuite ==
    /\ server \in {"down", "starting", "up"}
    /\ tsPc = "compose"
    /\ probes = 0
    /\ tsReady = FALSE
    /\ tsSent = FALSE
    /\ tsResults = <<>>
    /\ tsStart = "none"
    /\ tsCalls = <<>>

\* The API server comes up, or goes down, at any time of the run.
ServerReady ==
    /\ tsPc \notin {"none", "fatal", "panic", "exit0", "exit1"}
    /\ server = "starting"
    /\ server' = "up"
    /\ UNCHANGED <<tsPc, probes, tsReady, tsSent, tsResults, tsStart, tsCalls>>
    /\ UNCHANGED notSuite

ServerCrash ==
    /\ tsPc \notin {"none", "fatal", "panic", "exit0", "exit1"}
    /\ server = "up"
    /\ server' = "down"
    /\ UNCHANGED <<tsPc, probes, tsReady, tsSent, tsResults, tsStart, tsCalls>>
    /\ UNCHANGED notSuite

\* waitForServices, the Docker Compose check: "ps" succeeds, or "up -d"
\* starts the services, or log.Fatalf ends the process.
TsCompose ==
    /\ tsPc = "compose"
    /\ \E compose \in {"running", "started", "failed"} :
          /\ tsPc' = IF compose = "failed" THEN "fatal" ELSE "probe"
          /\ server' = IF compose = "started" /\ server = "down" THEN "starting" ELSE server
    /\ UNCHANGED <<probes, tsReady, tsSent, tsResults, tsStart, tsCalls>>
    /\ UNCHANGED notSuite

\* A variant that returns after the last probe instead of ending the process.
TsProbeGivingUp ==
    /\ tsPc = "probe"
    /\ IF probes < MaxProbes
       THEN \E status \in (IF server = "up" THEN {200, 503} ELSE {0}) :
               IF status = 200
               THEN tsReady' = TRUE /\ tsPc' = "deterministic" /\ probes' = 0
               ELSE probes' = probes + 1 /\ UNCHANGED <<tsReady, tsPc>>
       ELSE /\ tsPc' = "deterministic"
            /\ UNCHANGED <<probes, tsReady>>
    /\ UNCHANGED <<server, tsSent, tsResults, tsStart, tsCalls>>
    /\ UNCHANGED notSuite

\* waitForServices, one round of the loop: while i < 60 a health probe, which
\* returns on status 200 (i is gone with the return) and otherwise sleeps 2 s
\* and counts; after the loop log.Fatalf. (status 0: http.Get returned an
\* error.)
TsProbe ==
    /\ tsPc = "probe"
    /\ IF probes < MaxProbes
       THEN \E status \in (IF server = "up" THEN {200, 503} ELSE {0}) :
               IF status = 200
               THEN tsReady' = TRUE /\ tsPc' = "deterministic" /\ probes' = 0
               ELSE probes' = probes + 1 /\ UNCHANGED <<tsReady, tsPc>>
       ELSE /\ tsPc' = "fatal"
            /\ UNCHANGED <<probes, tsReady>>
    /\ UNCHANGED <<server, tsSent, tsResults, tsStart, tsCalls>>
    /\ UNCHANGED notSuite

\* n results of one name, all with the same outcome.
RECURSIVE Recorded(_, _, _)
Recorded(name, success, n) ==
    IF n = 0 THEN <<>> ELSE <<TestResult(name, success)>> \o Recorded(name, success, n - 1)

\* The scenarios that read a response only by comparing its values, each
\* with the number of results it records and the scenario main calls next.
Scenarios ==
    [deterministic |-> [results |-> 3, next |-> "routing"],
     routing |-> [results |-> 4, next |-> "definitions"],
     tenant |-> [results |-> 3, next |-> "start"],
     errors |-> [results |-> 3, next |-> "perf"],
     perf |-> [results |-> 2, next |-> "print"]]

\* The results such a scenario records when each of its requests gets this
\* response, quick telling whether the fast requests took under their limit
\* (200 ms each, 100 ms on average) and slow whether the workflow starts took
\* over theirs (500 ms each, 2 s on average). A name stands for the names
\* the scenario builds from it ("Deterministic: Simple Math", ...).
ScenarioResults(scenario, response, quick, slow) ==
    CASE scenario = "deterministic" ->
            Recorded("Deterministic", response.success = "true" /\ quick, 3)
      [] scenario = "routing" ->
            Recorded("Temporal Routing",
                     response.success = "true" /\ (response.workflow_id # "nil" \/ slow), 4)
      [] scenario = "tenant" ->
            Recorded("Multi-Tenant",
                     response.success = "true" /\ response.workflow_id # "nil", 3)
      [] scenario = "errors" ->
            << TestResult("Error Handling: Invalid Workflow",
                          response.success = "false" /\ response.error),
               TestResult("Error Handling: Malformed Request", response.success = "false"),
               TestResult("Service Availability: Metrics", response.success = "true") >>
      [] scenario = "perf" ->
            << TestResult("Performance: Deterministic Avg", quick),
               TestResult("Performance: Temporal Startup Avg", ~slow) >>

\* testDeterministicExecution, testTemporalWorkflowRouting,
\* testMultiTenantIsolation, testErrorHandlingAndRetries and
\* testPerformanceBenchmark, each as a whole.
TsScenario ==
    /\ tsPc \in DOMAIN Scenarios
    /\ \E outcome \in Outcomes(server), quick \in BOOLEAN, slow \in BOOLEAN :
          tsResults' = tsResults \o ScenarioResults(tsPc, makeRequest(outcome), quick, slow)
    /\ tsSent' = TRUE
    /\ tsPc' = Scenarios[tsPc].next
    /\ UNCHANGED <<server, probes, tsReady, tsStart, tsCalls>>
    /\ UNCHANGED notSuite

\* testGitNativeHotReload: GET definitions; initialCount :=
\* int(definitionsResponse["total"].(float64)), which panics on a map that
\* has no number under "total".
TsDefinitions ==
    /\ tsPc = "definitions"
    /\ \E outcome \in Outcomes(server) :
          tsPc' = IF makeRequest(outcome).totalType = "float64" THEN "reload" ELSE "panic"
    /\ tsSent' = TRUE
    /\ UNCHANGED <<server, probes, tsReady, tsResults, tsStart, tsCalls>>
    /\ UNCHANGED notSuite

\* testGitNativeHotReload: POST reload and its TestResult.
TsReload ==
    /\ tsPc = "reload"
    /\ \E outcome \in Outcomes(server) :
          tsResults' = Append(tsResults,
                              TestResult("Git Hot-Reload", makeRequest(outcome).success = "true"))
    /\ tsPc' = "workers"
    /\ UNCHANGED <<server, probes, tsReady, tsSent, tsStart, tsCalls>>
    /\ UNCHANGED notSuite

\* testGitNativeHotReload: GET workers/status; workerCount :=
\* int(workersResponse["total"].(float64)), with the same panic.
TsWorkers ==
    /\ tsPc = "workers"
    /\ \E outcome \in Outcomes(server) :
          LET response == makeRequest(outcome)
          IN IF response.totalType = "float64"
             THEN /\ tsResults' = Append(tsResults,
                                         TestResult("Worker Status Check", response.total > 0))
                  /\ tsPc' = "tenant"
             ELSE /\ tsPc' = "panic"
                  /\ tsResults' = tsResults
    /\ UNCHANGED <<server, probes, tsReady, tsSent, tsStart, tsCalls>>
    /\ UNCHANGED notSuite

\* testWorkflowSignaling: the start request. Without success and a
\* workflow_id one failed result is recorded and the scenario returns;
\* otherwise workflowID and runID are taken with .(string), which panics on
\* a response that has no string under "run_id".
TsStart ==
    /\ tsPc = "start"
    /\ \E outcome \in Outcomes(server) :
          LET response == makeRequest(outcome)
          IN IF response.success # "true" \/ response.workflow_id = "nil"
             THEN /\ tsStart' = "failed"
                  /\ tsResults' = Append(tsResults, TestResult("Workflow Signaling Setup", FALSE))
                  /\ tsPc' = "errors"
             ELSE /\ tsStart' = "started"
                  /\ tsResults' = tsResults
                  /\ tsPc' = IF response.workflow_id = "string" /\ response.run_id = "string"
                             THEN "status" ELSE "panic"
    /\ UNCHANGED <<server, probes, tsReady, tsSent, tsCalls>>
    /\ UNCHANGED notSuite

\* testWorkflowSignaling: the status, pause, resume and query calls, each
\* with its TestResult.
TsControl ==
    /\ tsPc \in {"status", "pause", "resume", "query"}
    /\ tsCalls' = Append(tsCalls, tsPc)
    /\ \E outcome \in Outcomes(server) :
          tsResults' = Append(tsResults,
                              TestResult(ControlResult(tsPc), makeRequest(outcome).success = "true"))
    /\ tsPc' = ControlCalls[Len(tsCalls) + 2]
    /\ UNCHANGED <<server, probes, tsReady, tsSent, tsStart>>
    /\ UNCHANGED notSuite

\* testWorkflowSignaling: the cancel call, its response dropped.
TsCancel ==
    /\ tsPc = "cancel"
    /\ tsCalls' = Append(tsCalls, "cancel")
    /\ tsPc' = "errors"
    /\ UNCHANGED <<server, probes, tsReady, tsSent, tsResults, tsStart>>
    /\ UNCHANGED notSuite

\* printResults: os.Exit(1) when a result failed.
TsPrint ==
    /\ tsPc = "print"
    /\ tsPc' = IF \E i \in 1..Len(tsResults) : ~tsResults[i].Success THEN "exit1" ELSE "exit0"
    /\ UNCHANGED <<server, probes, tsReady, tsSent, tsResults, tsStart, tsCalls>>
    /\ UNCHANGED notSuite

NextSuite ==
    \/ ServerReady
    \/ ServerCrash
    \/ TsCompose
    \/ TsProbe
    \/ TsScenario
    \/ TsDefinitions
    \/ TsReload
    \/ TsWorkers
    \/ TsStart
    \/ TsControl
    \/ TsCancel
    \/ TsPrint

-----------------------------------------------------------------------------
(* Specifications *)

InitSpecDemo == InitDemo /\ InitTemporal /\ InitServeIdle /\ InitTenant /\ InitSuiteIdle

SpecDemo == InitSpecDemo /\ [][NextDemo]_vars

InitSpecTemporal == InitDemoIdle /\ InitTemporal /\ InitServeIdle /\ InitTenant /\ InitSuiteIdle

SpecTemporal == InitSpecTemporal /\ [][NextTemporal]_vars

\* The Temporal program with its workflow scheduled fairly: while a worker
\* polls the task queue the server hands it every workflow task that is ready
\* (a day's timer that fired, a signal for a waiting Receive). Nothing is
\* assumed about the driver or about the clients that send signals.
LongRunningFairness ==
    /\ WF_vars(LrLoop)
    /\ WF_vars(LrResume)
    /\ WF_vars(LrDayDone)

SpecTemporalFair == InitSpecTemporal /\ [][NextTemporal]_vars /\ LongRunningFairness

\* LongRunningWorkflow started by a client with any argument, and signalled,
\* while the program's worker runs.
NextLong ==
    \/ DrvDial
    \/ \E days \in -1..MaxDays : ClientStartLong(days)
    \/ ClientSignal
    \/ LrLoop
    \/ LrResume
    \/ LrDayDone

InitSpecLong == InitDemoIdle /\ InitTemporal /\ InitServeIdle /\ InitTenant /\ InitSuiteIdle

SpecLong == InitSpecLong /\ [][NextLong]_vars

\* The Temporal program with a client that cancels its workflows.
NextCancel ==
    \/ NextTemporal
    \/ \E workflow \in {"DataPipelineWorkflow", "LongRunningWorkflow"} : ClientCancel(workflow)

InitSpecCancel == InitDemoIdle /\ InitTemporal /\ InitServeIdle /\ InitTenant /\ InitSuiteIdle

SpecCancel == InitSpecCancel /\ [][NextCancel]_vars

\* The integration test suite against a server that comes and goes.
InitSpecSuite == InitDemoIdle /\ InitTemporal /\ InitServeIdle /\ InitTenant /\ InitSuite

SpecSuite == InitSpecSuite /\ [][NextSuite]_vars

InitSpecServe == InitDemoIdle /\ InitTemporal /\ InitServe /\ InitTenant /\ InitSuiteIdle

SpecServe == InitSpecServe /\ [][NextServe]_vars

InitSpecReload == InitDemoIdle /\ InitTemporal /\ InitServeIdle /\ InitTenant /\ InitSuiteIdle

SpecReload == InitSpecReload /\ [][NextReload]_vars

InitSpecRuns == InitDemoIdle /\ InitTemporal /\ InitServe /\ InitTenant /\ InitSuiteIdle

SpecRuns == InitSpecRuns /\ [][NextRuns]_vars

InitSpecTenant == InitDemoIdle /\ InitTemporal /\ InitServeIdle /\ InitTenant /\ InitSuiteIdle

SpecTenant == InitSpecTenant /\ [][NextTenant]_vars

InitSpecPlans == InitDemoIdle /\ InitTemporal /\ InitServeIdle /\ InitTenant /\ InitSuiteIdle

SpecPlans == InitSpecPlans /\ [][NextPlans]_vars

InitSpecSession == InitDemoIdle /\ InitTemporal /\ InitServeIdle /\ InitTenant /\ InitSuiteIdle

SpecSession == InitSpecSession /\ [][NextSession]_vars

InitSpecStart == InitDemoIdle /\ InitTemporal /\ InitServeIdle /\ InitTenant /\ InitSuiteIdle

SpecStart == InitSpecStart /\ [][NextStart]_vars

InitSpecExec == InitDemoIdle /\ InitTemporal /\ InitServeIdle /\ InitTenant /\ InitSuiteIdle

SpecExec == InitSpecExec /\ [][NextExec]_vars

-----------------------------------------------------------------------------
(* Properties *)

\* C1 (stated as claimed; SpecDemo): every definition readWorkflow returns
\* while the reload goroutine rewrites the file is exactly the 1.0.0
\* definition or exactly the 1.1.0 definition, never an empty, partial or
\* mixed one.
C1_EveryReadIsWhole ==
    \A i \in 1..Len(reads) :
        \/ reads[i] = initialWorkflow
        \/ \E t \in 0..MaxTime : reads[i] = updatedWorkflow(t)

\* The response the router's decision is read from: the request a worker is
\* serving, or the latest response.
Decided ==
    {[text |-> worker[w].text, path |-> worker[w].path] :
        w \in {v \in Workers : worker[v].pc # "idle"}}
    \cup (IF last = NoResponse THEN {} ELSE {[text |-> last.text, path |-> last.path]})

\* C2 (stated as claimed; SpecServe): for every request, the path the
\* documented routeRequest decides is the path of the strict priority order
\* (allow-list, then unknown, then more than N steps, then Fast).
C2_RouteRequestFollowsTheOrder ==
    \A d \in Decided :
        d.path = route(Routed(Classified[d.text].domain, StepCount(d.text)), threshold)

\* C3 (stated as claimed; SpecTemporal): once the driver's pause signal is
\* delivered, and until its resume signal is, the workflow starts processing
\* no further day (no other client signals in this run).
C3_PauseHoldsTheWorkflow ==
    [][(pausePending /\ clientSignals = 0 /\ lrPc = "loop") => lrPc' # "sleep"]_vars

\* C4 (stated as claimed; SpecTemporal): ErrorHandlingWorkflow returns a
\* success result and no error, its activity having succeeded on the third
\* attempt.
C4_ErrorHandlingSucceeds ==
    ehPc = "done" =>
        /\ ~ehErr
        /\ ehResult = "Success on attempt"
        /\ Len(ehCalls) = FirstSuccessfulAttempt

\* C5 (SpecServe): a request that refers to "it", received after the request
\* whose result its session holds was answered and overlapping no other
\* update of the session, succeeds with the calculation applied to that
\* result, which becomes the session's last_result; "Calculate 100 + 50"
\* answers 150 and "Multiply it by 2" after it answers 300.
C5_SessionContinuity ==
    /\ (last # NoResponse /\ last.text = TextSum) => (last.success /\ last.result = 150)
    /\ (last.text = TextMulIt /\ last.after # NoStored /\ ~last.overlapped) =>
          /\ last.success
          /\ last.read.val = last.after.result
          /\ last.result = last.after.result * 2
          /\ sessions[last.sid].has
          /\ sessions[last.sid].val = last.result
          /\ (last.after.text = TextSum => last.result = 300)

C5_Witness ==
    /\ last.text = TextMulIt
    /\ last.after = StoredBy(TextSum, 150)
    /\ ~last.overlapped
    /\ last.result = 300
    /\ sessions[last.sid] = [has |-> TRUE, val |-> 300]

\* The version a snapshot holds under a name of a registry.
Installed(snap, kind, name) ==
    CASE kind = "tool" -> snap.tool[name]
      [] kind = "workflow" -> snap.workflow[name]
      [] kind = "config" -> snap.config[name]

\* The positions of a batch whose change is valid: it passes the schema and
\* no change before it that passes the schema defines the same name.
ValidAt(changes) ==
    {i \in 1..Len(changes) :
        /\ changes[i].schemaOk
        /\ \A j \in 1..(i - 1) :
              ~(changes[j].schemaOk /\ changes[j].kind = changes[i].kind
                /\ changes[j].name = changes[i].name)}

\* C6 (SpecReload): after reload(branch, changes) the branch's snapshot is
\* the previous one with exactly the valid changes installed at the new
\* revision, the rejections reported are the invalid changes, one by one,
\* and the reload installs the snapshot however many changes it rejected.
C6_PartialBatchReload ==
    lastReload.branch # "" =>
        LET changes == lastReload.changes
            prev == lastReload.prev
            new == current[lastReload.branch]
            valid == ValidAt(changes)
        IN /\ new.revision = prev.revision + 1
           /\ \A kind \in Kinds : \A name \in NamesOf(kind) :
                 Installed(new, kind, name) =
                    IF \E i \in valid : changes[i].kind = kind /\ changes[i].name = name
                    THEN new.revision
                    ELSE Installed(prev, kind, name)
           /\ lastReload.accepted = Cardinality(valid)
           /\ lastReload.rejected = Len(changes) - Cardinality(valid)

C6_Witness ==
    /\ lastReload.branch # ""
    /\ Len(lastReload.changes) = 3
    /\ Cardinality({i \in 1..3 : ~lastReload.changes[i].schemaOk}) = 1
    /\ lastReload.accepted = 2
    /\ lastReload.rejected = 1
    /\ current[lastReload.branch] # lastReload.prev

\* C7 (stated as claimed; SpecServe): a request of a known domain outside the
\* allow-list goes Durable exactly when its plan has more than N steps.
C7_ThresholdDecides ==
    \A d \in Decided :
        (Classified[d.text].domain \notin DurabilityAllowList \cup {"unknown"}) =>
            (d.path = TemporalPath <=> StepCount(d.text) > threshold)

\* C8 (stated as claimed; SpecServe): a request whose text matches no
\* classifier rule is answered from the durable path: not with an error of
\* the fast path, and with a workflow_id when it succeeds.
C8_UnknownGoesDurable ==
    (last # NoResponse /\ Classified[last.text].domain = "unknown") =>
        /\ last.path = TemporalPath
        /\ last.error # "DecompositionError"
        /\ last.success => last.workflow_id # 0

\* What a response says of the execution.
Output(r) ==
    [success |-> r.success, hasResult |-> r.hasResult, result |-> r.result,
     error |-> r.error]

\* C9 (stated as claimed; SpecRuns): two runs of one text at one registry
\* revision produce identical output, whatever ran in between.
C9_SameTextSameOutput ==
    (pinned # NoResponse /\ pinned.text = last.text /\ pinned.revision = last.revision)
        => Output(pinned) = Output(last)

\* C9 (amended; SpecRuns): two runs of one text at one registry revision
\* that resolved "it" to the same last_result (or resolved nothing) produce
\* identical output, whatever ran in between.
C9_SameInputSameOutput ==
    (pinned # NoResponse /\ pinned.text = last.text /\ pinned.revision = last.revision
     /\ pinned.read = last.read)
        => Output(pinned) = Output(last)

C9_Witness ==
    /\ pinned.text = TextMulIt
    /\ last.text = TextMulIt
    /\ last.overlapped
    /\ pinned.success
    /\ pinned.revision = last.revision
    /\ pinned.read = last.read
    /\ Output(pinned) = Output(last)

\* The operands the calculator is applied to.
Operands == (-2..2) \cup {42, 58, 100, 50}

\* C10 (SpecServe): "Calculate 42 + 58" is answered on the fast path with
\* success and result 100, and the calculator's result for an addition of
\* operands a and b is a + b.
C10_AdditionOnTheFastPath ==
    /\ (last.text = TextAdd) =>
          (last.path = FastPath /\ last.success /\ last.hasResult /\ last.result = 100)
    /\ \A a \in Operands, b \in Operands :
          Calculator("+", a, b) = [ok |-> TRUE, value |-> a + b]

C10_Witness ==
    /\ last.text = TextAdd
    /\ last.path = FastPath
    /\ last.success
    /\ last.result = 100

\* C11: a session's last_result changes only in the step in which a
\* fast-path run completes the final step of its plan with success, and it
\* then holds that run's result; a run that is cancelled between steps, hits
\* a missing tool or fails at a step leaves every session as it was; and a
\* worker that stays on its plan never runs a step again.
C11_LastResultChangesOnlyOnFinalSuccess ==
    [][/\ \A sid \in SessionIds :
             sessions'[sid] # sessions[sid] =>
                \E w \in Workers :
                   /\ worker[w].pc = "fast"
                   /\ worker[w].sid = sid
                   /\ worker[w].idx + 1 = Len(PlanOf(worker[w].text))
                   /\ worker'[w].pc = "idle"
                   /\ last'.success /\ last'.hasResult
                   /\ last'.text = worker[w].text /\ last'.sid = sid
                   /\ sessions'[sid] = StoredSession(last'.result)
       /\ \A w \in Workers :
             (worker[w].pc = "fast" /\ worker'[w].pc = "idle" /\ ~last'.success) =>
                /\ sessions' = sessions
                /\ last'.error \in {"Cancelled", "ToolNotFoundError", "ToolExecutionError"}
       /\ \A w \in Workers :
             (worker[w].pc = "fast" /\ worker'[w].pc = "fast") =>
                \/ worker'[w].idx = worker[w].idx + 1
                \/ /\ worker'[w].idx = worker[w].idx
                   /\ worker'[w].acc = worker[w].acc
                   /\ worker'[w].read = worker[w].read]_vars

\* A run that had read the session in its first step was cancelled before
\* its second, and the session still holds what the earlier run stored.
C11_Witness ==
    /\ last.error = "Cancelled"
    /\ last.read.src = "session"
    /\ sessions[last.sid] = StoredSession(150)
    /\ storedBy[last.sid].text = TextSum

\* A run found its tool deleted; a run failed at its second step after its
\* first had succeeded. Neither is stored in a session.
C11_MissingTool ==
    /\ last.error = "ToolNotFoundError"
    /\ sessions[last.sid] = EmptySession

C11_FailedStep ==
    /\ last.error = "ToolExecutionError"
    /\ last.text = TextThenDiv
    /\ sessions[last.sid] = EmptySession

\* C12: the status of LongRunningWorkflow follows Running -> {Paused <->
\* Running} -> Completed. It becomes Paused only from Running and only in the
\* step that consumes a pause signal; it leaves Paused only to Running and
\* only in the step that consumes a resume signal; while it is Paused it
\* blocks on the resume channel, so it never completes paused; and once it is
\* Completed no signal or step changes it.
C12_StatusStateMachine ==
    /\ [](isPaused => lrPc = "wait")
    /\ [][/\ (LongStatus' = "Paused" /\ LongStatus # "Paused") =>
                /\ LongStatus = "Running"
                /\ pauseChan # <<>>
                /\ pauseChan' = Tail(pauseChan)
          /\ (LongStatus = "Paused" /\ LongStatus' # "Paused") =>
                /\ LongStatus' = "Running"
                /\ resumeChan # <<>>
                /\ resumeChan' = Tail(resumeChan)
          /\ (LongStatus' = "Completed" /\ LongStatus # "Completed") =>
                LongStatus = "Running"
          /\ LongStatus = "Completed" =>
                /\ LongStatus' = "Completed"
                /\ <<lrVars, sigVars>>' = <<lrVars, sigVars>>]_vars

\* The workflow has completed all its days after a client's pause was
\* consumed and the resume that followed it was consumed: both signals were
\* sent before the driver sent any, and a resume is consumed only while paused.
C12_Witness ==
    /\ LongStatus = "Completed"
    /\ processedDays = LongDays
    /\ drvPc = "pause"
    /\ clientSignals = 2
    /\ ~pausePending
    /\ pauseChan = <<>>
    /\ resumeChan = <<>>

\* C13: the connection to the durable service is attempted again after a
\* failed attempt: the program does not stop at the first failed attempt.
\* (The program calls client.Dial once, so its state "dial" is its first
\* attempt, and "fatal" is log.Fatalf ending the program.)
C13_FirstFailureIsRetried == [][drvPc = "dial" => drvPc' # "fatal"]_vars

\* C14: every resolution of a tenant id that was mapped when it was resolved
\* returned that tenant's branch customer/<tenant_id>, every resolution of a
\* tenant id that had no mapping (the absent tenant id included) returned the
\* base branch, and two resolutions of one tenant id under the same mapping
\* returned the same branch.
C14_ResolveFallsBackToBase ==
    /\ \A i \in 1..Len(resolutions) :
          LET r == resolutions[i]
          IN IF r.mapped
             THEN [tenant |-> r.tenant, branch |-> r.branch] \in tenantBranches
             ELSE r.branch = BaseBranch
    /\ \A i, j \in 1..Len(resolutions) :
          (resolutions[i].tenant = resolutions[j].tenant
              /\ resolutions[i].mapped = resolutions[j].mapped) =>
             resolutions[i].branch = resolutions[j].branch

\* The part of C14 the manager does keep: a mapped tenant gets its own
\* branch, and the same tenant id always gets the same branch.
C14_MappedAndDeterministic ==
    \A i, j \in 1..Len(resolutions) :
       /\ resolutions[i].mapped =>
             [tenant |-> resolutions[i].tenant, branch |-> resolutions[i].branch]
                \in tenantBranches
       /\ resolutions[i].tenant = resolutions[j].tenant =>
             resolutions[i].branch = resolutions[j].branch

\* C15: the customers the program has reported a started workflow for have
\* pairwise distinct task queues, and for each of them an execution was
\* started on that customer's own task queue.
C15_TenantWorkflowOnOwnQueue ==
    /\ \A i, j \in 1..Len(tenantQueues) :
          i # j => tenantQueues[i] # tenantQueues[j]
    /\ \A i \in 1..Len(tenantQueues) :
          \E e \in StartedExecutions : e.queue = tenantQueues[i]

\* The part of C15 the program does keep: distinct customers get distinct
\* task queue names.
C15_DistinctQueueNames ==
    \A i, j \in 1..Len(tenantQueues) : i # j => tenantQueues[i] # tenantQueues[j]

\* The step a worker on the fast path is about to run, and what it gives.
NextStep(w) == PlanOf(worker[w].text)[worker[w].idx + 1]

StepResult(w) ==
    Calculator(NextStep(w).op, ValueOf(NextStep(w).lhs, worker[w]),
               ValueOf(NextStep(w).rhs, worker[w]))

StepFails(w) ==
    \/ worker[w].snap.tool[NextStep(w).tool] = 0
    \/ NextStep(w).tool = "ResolveReference" /\ ~sessions[worker[w].sid].has
    \/ NextStep(w).tool = "Calculator" /\ ~StepResult(w).ok

C17_ReadReturnsDefinitionAtItsStart ==
    (mainPc # "read" /\ reads # <<>> /\ rdFrom = MarshalIndent(initialWorkflow)) =>
       reads[Len(reads)] = initialWorkflow

\* The parts of C17 the demonstration does keep: after the initial install
\* only the reload goroutine changes the file, and a read in progress is
\* never kept from its next step by the reload (it needs no lock, only time
\* for its Sleep).
C17_OnlyReloadWritesAndReadsNeverWait ==
    /\ [][file' # file => wrPc \in {"sleep", "write"}]_vars
    /\ [](mainPc = "read" => ENABLED MainRead)

\* C18: when the program has given up and returned, every workflow it had
\* started has reached a terminal state (it was awaited), the program having
\* no call that cancels one.
C18_NoStartedWorkflowAbandoned ==
    drvPc = "exit" => (dpPc \in {"idle", "done"} /\ lrPc \in {"idle", "done"}
                         /\ ehPc \in {"idle", "done"})

\* The part of C18 the program does keep: the workflows of TEST 2 and TEST 5
\* are awaited before it returns.
C18_AwaitedWorkflowsAreTerminal ==
    drvPc = "exit" => (dpPc \in {"idle", "done"} /\ ehPc \in {"idle", "done"})

\* The complete result of a plan: its Calculator steps applied in order, a
\* reference operand standing for the value read from the session.
RECURSIVE RunPlan(_, _, _, _)
RunPlan(plan, i, acc, read) ==
    IF i > Len(plan) THEN acc
    ELSE IF plan[i].tool # "Calculator" THEN RunPlan(plan, i + 1, acc, read)
    ELSE LET at == [acc |-> acc, read |-> [src |-> "session", val |-> read]]
         IN RunPlan(plan, i + 1,
                    Calculator(plan[i].op, ValueOf(plan[i].lhs, at),
                               ValueOf(plan[i].rhs, at)).value,
                    read)

\* C19: concurrent requests on one session never leave a partial update in
\* last_result. Every value last_result takes is written in the step in
\* which one request completes, and is that request's complete result (the
\* value of its whole plan, not of a prefix of it); and whenever the latest
\* response is a success, its session's last_result is that response's
\* result: the request that completed last wins.
C19_NoPartialUpdateOfLastResult ==
    /\ []((last.success /\ last.hasResult) =>
             sessions[last.sid] = StoredSession(last.result))
    /\ [][\A sid \in SessionIds :
             sessions'[sid] # sessions[sid] =>
                \E w \in Workers :
                   /\ worker[w].pc = "fast" /\ worker[w].sid = sid
                   /\ worker'[w].pc = "idle"
                   /\ last'.success /\ last'.text = worker[w].text
                   /\ last'.result = RunPlan(PlanOf(worker[w].text), 1, 0, worker[w].read.val)
                   /\ sessions'[sid] = StoredSession(last'.result)]_vars

\* Two requests overlapped on one session: the two-step request began, the
\* sum completed and stored 150 meanwhile, and the two-step request then
\* completed last; the session holds its complete result, 45.
C19_Witness ==
    /\ last.success
    /\ last.overlapped
    /\ last.text = TextThen
    /\ sessions["calc-demo"] = StoredSession(45)

C20_Malformed ==
    /\ last.text = ""
    /\ last.path = TemporalPath
    /\ last.error = "ValidationError"
    /\ started = 1

\* C22: once the cancellation of a running DataPipelineWorkflow or
\* LongRunningWorkflow has been requested, the workflow executes no further
\* stage or day and does not go on to return its success message.
C22_CancelStopsTheWorkflow ==
    [][/\ "DataPipelineWorkflow" \in cancelRequested =>
             /\ dpResults' = dpResults
             /\ (dpPc # "done" => dpPc' # "done")
       /\ "LongRunningWorkflow" \in cancelRequested =>
             /\ processedDays' = processedDays
             /\ (lrPc # "done" => lrPc' # "done")]_vars

\* What the code does instead: cancelled executions that returned their
\* success message after running every remaining stage and day.
C22_CompletedAfterCancel ==
    /\ cancelRequested = {"DataPipelineWorkflow", "LongRunningWorkflow"}
    /\ dpPc = "done" /\ dpResults = stages
    /\ lrPc = "done" /\ processedDays = LongDays

\* C23: while a worker keeps serving it, a started LongRunningWorkflow
\* eventually completes provided every pause signal sent to it is eventually
\* followed by a resume signal, whatever the number and interleaving of the
\* pauses.
C23_CompletesWhenEveryPauseIsFollowedByResume ==
    (<>[]WorkerRunning /\ []<>(~pausePending))
        => [](LongOpen => <>(lrPc = "done"))

\* The state the workflow stays in: waiting for a resume although every
\* pause sent so far has been followed by a resume, which an earlier wait
\* has consumed.
C23_BlockedAfterResumeWasSent ==
    /\ WorkerRunning
    /\ lrPc = "wait"
    /\ resumeChan = <<>>
    /\ ~pausePending

\* C24: a resume signal that reached LongRunningWorkflow before a pause has no
\* effect on that pause: the workflow leaves the wait of a pause only by a
\* resume delivered after that pause. (With pauseChan empty the pause waited
\* for is the last one sent, and pausePending says no resume was sent since.)
C24_PauseHoldsUntilLaterResume ==
    [][(lrPc = "wait" /\ lrPc' = "sleep" /\ pauseChan = <<>>) => ~pausePending]_vars

\* The claim's case in full: the only resume ever sent reached the workflow
\* while it was running and not paused, the only pause (payload true) was
\* sent after it, and the workflow, in its first day, has taken that pause
\* and gone on to the day's work on the earlier resume.
C24_ReleasedByEarlierResume ==
    /\ drvPc = "pause"
    /\ clientSignals = 2
    /\ pausePending
    /\ pauseChan = <<>> /\ resumeChan = <<>>
    /\ lrDay = 1
    /\ lrPc = "sleep" /\ ~isPaused

\* C25: LongRunningWorkflow(days) processes the days 1..days in order, each
\* once, and on completion processedDays = days, or 0 when days <= 0.
C25_EveryDayOnceInOrder ==
    /\ [][processedDays' # processedDays =>
             /\ lrDay = processedDays + 1
             /\ lrDay <= lrDays
             /\ processedDays' = lrDay
             /\ lrDay' = lrDay + 1]_vars
    /\ [](lrPc = "done" => processedDays = IF lrDays > 0 THEN lrDays ELSE 0)

\* A run of MaxDays days that was paused and resumed on the way has completed.
C25_Witness ==
    /\ lrPc = "done"
    /\ lrDays = MaxDays
    /\ processedDays = MaxDays
    /\ clientSignals = 2 /\ ~pausePending
    /\ pauseChan = <<>> /\ resumeChan = <<>>

\* A run started with days <= 0 has completed without processing a day.
C25_NoDays ==
    /\ lrPc = "done"
    /\ lrDays <= 0
    /\ processedDays = 0

\* C26: in one run of ErrorHandlingWorkflow RetryableActivity is executed at
\* most MaximumAttempts (5) times; when every attempt failed the workflow
\* returns the error with an empty result, and it returns a result without
\* an error only when an attempt succeeded, that attempt's result.
C26_AtMostFiveAttempts ==
    /\ Len(ehCalls) <= MaximumAttempts
    /\ ehPc = "done" =>
          IF \E i \in 1..Len(ehCalls) : ~RetryableActivity(ehCalls[i]).err
          THEN /\ ~ehErr
               /\ ehResult = RetryableActivity(ehCalls[Len(ehCalls)]).result
          ELSE /\ ehErr
               /\ ehResult = ""
               /\ Len(ehCalls) = MaximumAttempts

\* The workflow has returned after five failed attempts.
C26_Witness ==
    /\ ehPc = "done"
    /\ Len(ehCalls) = MaximumAttempts
    /\ \A i \in 1..Len(ehCalls) : RetryableActivity(ehCalls[i]).err
    /\ ehErr /\ ehResult = ""

\* The versions the demonstration can log, in their order as Go strings:
\* the zero definition's empty version, then 1.0.0, then 1.1.0.
VersionRank(version) ==
    CASE version = "" -> 0
      [] version = "1.0.0" -> 1
      [] version = "1.1.0" -> 2

\* C27: the version the monitoring loop observes never goes backwards (1.0.0,
\* then 1.1.0), and every read that started after the reload goroutine had
\* finished writing returned the updated definition (1.1.0, 2h, 5 attempts).
C27_VersionsNeverGoBackwards ==
    /\ \A i \in 1..Len(reads) : \A j \in i..Len(reads) :
          VersionRank(reads[i].Version) <= VersionRank(reads[j].Version)
    /\ (mainPc # "read" /\ reads # <<>> /\ wrPc = "done" /\ rdFrom = MarshalIndent(updated)) =>
          reads[Len(reads)] = updated

\* What the demonstration does instead: after logging 1.0.0 it logs the empty
\* version of a read that met the file while it was being rewritten.
C27_EmptyVersionAfterInitial ==
    /\ Len(reads) >= 2
    /\ reads[Len(reads) - 1] = initialWorkflow
    /\ reads[Len(reads)] = ZeroDefinition

\* The parts of C27 the demonstration does keep: 1.1.0 is never followed by
\* another version, and a read that started after the reload goroutine had
\* finished writing returned the updated definition.
C27_UpdatedVersionStays ==
    /\ \A i \in 1..Len(reads) : \A j \in i..Len(reads) :
          reads[i].Version = "1.1.0" => reads[j] = reads[i]
    /\ (mainPc # "read" /\ reads # <<>> /\ wrPc = "done" /\ rdFrom = MarshalIndent(updated)) =>
          (reads[Len(reads)] = updated /\ updated.MaxDuration = "2h" /\ updated.MaxAttempts = 5)

\* The results testWorkflowSignaling has recorded.
SignalingResults ==
    SelectSeq(tsResults, LAMBDA r : r.Name \in {"Workflow Signaling Setup"}
                  \cup {ControlResult(ControlCalls[k]) : k \in 1..4})

\* testWorkflowSignaling is over: main is past it, or the process has ended
\* in it.
SignalingOver == tsStart # "none" /\ tsPc \in {"errors", "perf", "print", "exit0", "exit1", "panic"}

\* C28: testWorkflowSignaling sends its control calls only to a workflow
\* whose start returned success with a workflow_id, in exactly the order
\* status, pause, resume, query, cancel; every workflow so started has been
\* sent its cancel, as the last call, when the scenario is over; and after a
\* failed start exactly one result, a failed one, is recorded and no call
\* is sent.
C28_ControlCallsInOrderThenCancel ==
    /\ tsCalls = SubSeq(ControlCalls, 1, Len(tsCalls))
    /\ tsCalls # <<>> => tsStart = "started"
    /\ (SignalingOver /\ tsStart = "started") => tsCalls = ControlCalls
    /\ tsStart = "failed" =>
          /\ tsCalls = <<>>
          /\ SignalingResults = <<TestResult("Workflow Signaling Setup", FALSE)>>

\* What the code does instead: the start succeeded with a workflow_id, the
\* process has ended in the scenario, and the started workflow was sent no
\* call, its cancel included.
C28_StartedAndNeverCancelled ==
    /\ tsStart = "started"
    /\ tsPc = "panic"
    /\ tsCalls = <<>>
    /\ SignalingResults = <<>>

\* The part of C28 the suite does keep: the order of the calls, to a started
\* workflow only, and the single failed result of a start that failed.
C28_OrderOfTheCallsSent ==
    /\ tsCalls = SubSeq(ControlCalls, 1, Len(tsCalls))
    /\ tsCalls # <<>> => tsStart = "started"
    /\ tsPc \in {"errors", "perf", "print", "exit0", "exit1"} /\ tsStart = "started" =>
          tsCalls = ControlCalls
    /\ tsStart = "failed" =>
          /\ tsCalls = <<>>
          /\ SignalingResults = <<TestResult("Workflow Signaling Setup", FALSE)>>

\* C29: the suite never aborts on a failed request: makeRequest turns every
\* failure into a map with success = false, no scenario ends the process on
\* a failed or incomplete response, and once the services were ready the run
\* is on its way to printResults or has reached it.
C29_SuiteNeverAborts ==
    /\ \A failure \in Failures : makeRequest(failure).success = "false"
    /\ tsPc # "panic"
    /\ tsReady => tsPc \in DOMAIN Scenarios \cup
                     {"definitions", "reload", "workers", "start", "status", "pause",
                      "resume", "query", "cancel", "print", "exit0", "exit1"}

\* What the code does instead: the process has ended in testGitNativeHotReload
\* on a failed request, with nothing recorded for the scenario and
\* printResults never reached.
C29_AbortedInHotReload ==
    /\ tsPc = "panic"
    /\ tsStart = "none"
    /\ server = "down"
    /\ \A i \in 1..Len(tsResults) : tsResults[i].Name \in {"Deterministic", "Temporal Routing"}

\* The part of C29 the suite does keep: makeRequest returns the failure map
\* for every failure, and the scenarios that read a response only by
\* comparing its values record their results whatever the response.
C29_MakeRequestReturnsFailureMap ==
    /\ \A failure \in Failures :
          makeRequest(failure) = FailureMap /\ makeRequest(failure).success = "false"
    /\ [][(tsPc \in DOMAIN Scenarios /\ tsPc' # tsPc) =>
             /\ tsPc' = Scenarios[tsPc].next
             /\ Len(tsResults') = Len(tsResults) + (Scenarios[tsPc].results)]_vars

C30_ReadyThenScenarios ==
    /\ tsReady
    /\ tsSent
    /\ tsPc \in {"exit0", "exit1"}
=============================================================================
